---- MODULE Spec2Model ----
(***************************************************************************)
(* Model of gh-subissue's command orchestration: the create workflow       *)
(* (cmd.Runner.Run and addToProject), the interactive selection helpers,   *)
(* the flag parsing of the create and edit commands, the repository        *)
(* resolution of main, and the list, edit and repos commands.              *)
(*                                                                         *)
(* Strings that the code inspects character by character (titles, prompt   *)
(* answers) are sequences of characters; error messages are sequences of   *)
(* words so that "contains" is computed; an output line is the format      *)
(* string of the Fprintf call together with its arguments.                 *)
(***************************************************************************)
EXTENDS Integers, Sequences, FiniteSets, TLC

VARIABLES
    pc,              \* position inside Runner.Run / ParseFlags
    opts,            \* cmd.Options (the copy Run works on)
    r,               \* cmd.Runner: Owner, Repo, Prompter, ValidateParent, OpenBrowser
    issues,          \* local `issues` of Run (result of ListIssues)
    body,            \* local `body` of Run
    result,          \* local `result` of Run: <<>> or <<IssueResult>>
    linkErr,         \* local `linkErr` of Run: <<>> (nil) or <<error>>
    projects,        \* local `projects` of addToProject
    selectedProject, \* local `selectedProject`: <<>> (nil) or <<Project>>
    nodeID,          \* local `nodeID` of addToProject
    calls,           \* every call made on Client, Prompter, Stdin/file and OpenBrowser
    out,             \* lines written to r.Out
    err,             \* value returned by Run: <<>> (nil) or <<error>>
    args,            \* command line handed to ParseFlags / ParseEditFlags
    parsed,          \* result of ParseFlags / ParseEditFlags
    env,             \* what main reads from the process: terminals, GH_FORCE_TTY, repository.Current
    prompter,        \* local `p` of runCreate/runList/runEdit: Prompter is non-nil
    owner,           \* local `owner` of runCreate/runList/runEdit and of ReposRunner.Run
    repoName,        \* local `repoName` of runCreate/runList/runEdit
    host,            \* local `host` of runCreate/runList/runEdit
    parent,          \* local `parent` of ListRunner.Run
    subIssues,       \* local `subIssues` of ListRunner.Run
    allRepos,        \* local `allRepos` of ReposRunner.Run
    page,            \* local `page` of ReposRunner.Run
    instance,        \* debug: the global logger `instance`: <<>> (nil) or <<Logger>>
    stderr           \* what the process has written to os.Stderr

vars == <<pc, opts, r, issues, body, result, linkErr, projects, selectedProject,
          nodeID, calls, out, err, args, parsed,
          env, prompter, owner, repoName, host, parent, subIssues, allRepos, page,
          instance, stderr>>

mainVars == <<env, prompter, owner, repoName, host>>
listVars == <<parent, subIssues>>
reposVars == <<allRepos, page>>
debugVars == <<instance, stderr>>

-----------------------------------------------------------------------------
(* Bounds *)

MaxLen == 3        \* longest text typed at the title prompt
MaxIssues == 2     \* longest list returned by ListIssues
MaxProjects == 2   \* longest list returned by ListProjects
MaxArgs == 3       \* longest command line
MaxRepoLen == 3    \* longest --repo string and longest answer to the repository prompt
MaxSubIssues == 2  \* longest list returned by ListSubIssues
MaxLimit == 3      \* largest small value of the repos --limit flag
MaxPage == 4       \* longest page of repositories returned whatever was requested

-----------------------------------------------------------------------------
(* Sequences and strings *)

RECURSIVE SeqsUpTo(_, _)
SeqsUpTo(S, n) ==
    IF n = 0 THEN {<<>>}
    ELSE LET shorter == SeqsUpTo(S, n - 1)
         IN  shorter \cup {Append(s, x) : s \in {t \in shorter : Len(t) = n - 1}, x \in S}

Chars == {" ", "a"}

\* unicode.IsSpace restricted to the characters of the model
IsSpace(c) == c \in {" ", "\t", "\n", "\r"}

RECURSIVE TrimLeft(_)
TrimLeft(s) ==
    IF s = <<>> THEN <<>>
    ELSE IF IsSpace(Head(s)) THEN TrimLeft(Tail(s)) ELSE s

RECURSIVE TrimRight(_)
TrimRight(s) ==
    IF s = <<>> THEN <<>>
    ELSE IF IsSpace(s[Len(s)]) THEN TrimRight(SubSeq(s, 1, Len(s) - 1)) ELSE s

\* variant: only the leading whitespace is removed
TrimSpaceLeft(s) == TrimLeft(s)

TrimSpace(s) == TrimRight(TrimLeft(s))

\* strings.Contains on word sequences: sub occurs contiguously in s
Contains(s, sub) ==
    \E i \in 0..(Len(s) - Len(sub)) :
        \A j \in 1..Len(sub) : s[i + j] = sub[j]

-----------------------------------------------------------------------------
(* Errors *)

\* errors.New / fmt.Errorf without %w
NewError(msg) ==
    [kind |-> "plain", msg |-> msg, args |-> <<>>, status |-> 0, op |-> "", cause |-> <<>>]

\* fmt.Errorf with verbs other than %w: the words of the format and its arguments
NewErrorf(msg, a) ==
    [kind |-> "plain", msg |-> msg, args |-> a, status |-> 0, op |-> "", cause |-> <<>>]

\* fmt.Errorf("<prefix>: %w", e)
WrapError(msg, a, e) ==
    [kind |-> "wrap", msg |-> msg, args |-> a, status |-> 0, op |-> "", cause |-> <<e>>]

\* api.APIError as built by newAPIError
APIError(status, op) ==
    [kind |-> "APIError", msg |-> <<>>, args |-> <<>>, status |-> status, op |-> op, cause |-> <<>>]

\* status codes of the failed responses of the model: not found
ErrStatusCodes == {404}

\* the errors a Client method may return: a classified API failure or a
\* transport failure wrapped by the client
ClientErrors(op) ==
    {APIError(s, op) : s \in ErrStatusCodes}
        \cup {WrapError(<<"failed", "to", "send", "request:">>, <<>>, NewError(<<"transport">>))}

\* errors returned by the Prompter (user abort)
PromptErrors == {NewError(<<"interrupt">>)}

\* errors returned by OpenBrowser
BrowserErrors == {NewError(<<"exec:", "no", "browser">>)}

\* Error() of an error value: the message, followed by the cause for %w
RECURSIVE ErrorText(_)
ErrorText(e) ==
    IF e.kind = "APIError" THEN <<e.op>>
    ELSE IF e.cause = <<>> THEN e.msg
    ELSE e.msg \o ErrorText(e.cause[1])

MsgParentRequired ==
    <<"--parent", "flag", "is", "required", "when", "not", "running", "interactively",
      "Tip:", "Run", "in", "a", "terminal", "for", "interactive", "parent", "selection,",
      "or", "use", "--parent", "to", "specify", "the", "parent", "issue", "number">>

MsgTitleRequired ==
    <<"--title", "flag", "is", "required", "when", "not", "running", "interactively",
      "Tip:", "Run", "in", "a", "terminal", "for", "interactive", "input,",
      "or", "use", "--title", "to", "specify", "the", "issue", "title">>

MsgTitleEmpty == <<"title", "cannot", "be", "empty">>

MsgNoOpenIssues ==
    <<"no", "open", "issues", "found", "in", "repository",
      "To", "create", "a", "parent", "issue", "first:", "gh", "issue", "create",
      "Or", "use", "--parent", "with", "an", "existing", "issue", "number">>

MsgNoProjects == <<"no", "projects", "found", "for", "this", "repository">>

-----------------------------------------------------------------------------
(* Output lines: the format string of the Fprintf call and its arguments *)

Line(fmt, a) == [fmt |-> fmt, args |-> a]

FmtLinkWarning == "Warning: Issue created but failed to link as sub-issue: %v\n"
FmtIssueURL == "Issue URL: %s\n"
FmtManualLink == "To manually link, run:\n"
FmtLinkCommand == "  gh api repos/%s/%s/issues/%d/sub_issues -f sub_issue_id=%d\n"
FmtURL == "%s\n"
FmtBrowserWarning == "Warning: failed to open browser: %v\n"
FmtListProjectsWarning == "Warning: failed to list projects: %v\n"
FmtProjectNameRequired == "Warning: --project requires a project name when not running interactively\n"
FmtNoProjects == "Warning: no projects found for this repository\n"
FmtSelectProjectWarning == "Warning: failed to select project: %v\n"
FmtProjectNotFound == "Warning: project %q not found\n"
FmtNodeIDWarning == "Warning: failed to get issue node ID: %v\n"
FmtAddProjectWarning == "Warning: failed to add issue to project: %v\n"

-----------------------------------------------------------------------------
(* Calls on the collaborators *)

Call(op, a) == [op |-> op, args |-> a]

\* a call together with whether it returned without error
Outcome(call, ok) == [op |-> call.op, args |-> call.args, ok |-> ok]

CallOps == {calls[i].op : i \in 1..Len(calls)}

Called(op) == op \in CallOps

ProjectOps == {"ListProjects", "GetIssueNodeID", "AddIssueToProject"}

ClientOps == {"ListIssues", "GetIssue", "CreateIssue", "LinkSubIssue"} \cup ProjectOps

-----------------------------------------------------------------------------
(* Data returned by the API *)

\* api.Issue values of the repository, in API order
IssueAt(i) == [Number |-> 10 + i, Title |-> <<"a">>]

\* results of a successful ListIssues: the first n open issues
IssueLists == {[i \in 1..n |-> IssueAt(i)] : n \in 0..MaxIssues}

\* api.Project values; two titles differ only in case, two are equal
ProjectPool ==
    {[ID |-> "PVT_1", Title |-> <<"Roadmap">>, Number |-> 1],
     [ID |-> "PVT_2", Title |-> <<"roadmap">>, Number |-> 2],
     [ID |-> "PVT_3", Title |-> <<"Roadmap">>, Number |-> 3]}

IsInjective(s) == \A i, j \in 1..Len(s) : s[i] = s[j] => i = j

\* results of a successful ListProjects
ProjectLists == {s \in SeqsUpTo(ProjectPool, MaxProjects) : IsInjective(s)}

\* api.IssueResult of a successful CreateIssue: internal id, number and url
IssueResults ==
    {[ID |-> 12345, Number |-> 43, URL |-> "https://github.com/owner/repo/issues/43"]}

NodeIDs == {"I_node43"}

\* the three states of cmd.OptionalString that flag parsing produces
Unset == [Value |-> <<>>, WasSet |-> FALSE]
SetEmpty == [Value |-> <<>>, WasSet |-> TRUE]
SetValue(v) == [Value |-> v, WasSet |-> TRUE]

TitleOptions == {<<>>, <<"a">>, <<" ">>}

InputTexts == SeqsUpTo(Chars, MaxLen)

-----------------------------------------------------------------------------
(* Runner.Run *)

Return(e) ==
    /\ pc' = "Done"
    /\ err' = e

\* the locals of main's run functions before they are assigned
InitMainVars ==
    /\ env = <<>>
    /\ prompter = FALSE
    /\ owner = <<>>
    /\ repoName = <<>>
    /\ host = ""

\* the locals of ListRunner.Run before they are assigned
InitListVars ==
    /\ parent = 0
    /\ subIssues = <<>>

\* the locals of ReposRunner.Run before they are assigned
InitReposVars ==
    /\ allRepos = <<>>
    /\ page = 0

\* debug: `var instance *Logger`, and nothing written to os.Stderr yet
InitDebugVars ==
    /\ instance = <<>>
    /\ stderr = <<>>

InitRun ==
    /\ pc = "ResolveParent"
    /\ opts \in [Parent : {0, 42}, Title : TitleOptions, Body : {<<"Body text">>},
                 BodyFile : {<<>>, <<"-">>, <<"body.md">>}, Repo : {<<>>},
                 Assignees : {<<>>}, Labels : {<<>>}, Milestone : {0}, Web : BOOLEAN,
                 Project : {Unset, SetEmpty, SetValue(<<"Roadmap">>)}]
    /\ r \in [Owner : {"owner"}, Repo : {"repo"}, Prompter : BOOLEAN, Stdin : {TRUE},
              ValidateParent : BOOLEAN, OpenBrowser : BOOLEAN]
    /\ issues = <<>>
    /\ body = <<>>
    /\ result = <<>>
    /\ linkErr = <<>>
    /\ projects = <<>>
    /\ selectedProject = <<>>
    /\ nodeID = ""
    /\ calls = <<>>
    /\ out = <<>>
    /\ err = <<>>

\* variant: the parent test is `opts.Parent < 0`
NeedParentSelectionNegative(o) == o.Parent < 0

\* Run, `if opts.Parent == 0`
NeedParentSelection(o) == o.Parent = 0

\* Run, "If no parent specified, prompt interactively": up to the ListIssues result
ResolveParent ==
    /\ pc = "ResolveParent"
    /\ UNCHANGED debugVars
    /\ UNCHANGED <<r, body, result, linkErr, projects, selectedProject, nodeID, out, args, parsed,
                   mainVars, listVars, reposVars>>
    /\ IF ~NeedParentSelection(opts)
       THEN /\ pc' = "ResolveTitle"
            /\ UNCHANGED <<opts, issues, calls, err>>
       ELSE IF ~r.Prompter
       THEN /\ Return(<<NewError(MsgParentRequired)>>)
            /\ UNCHANGED <<opts, issues, calls>>
       ELSE LET call == Call("ListIssues",
                   [Owner |-> r.Owner, Repo |-> r.Repo, State |-> "open", PerPage |-> 30])
            IN \/ \E e \in ClientErrors("list issues") :
                    /\ calls' = Append(calls, Outcome(call, FALSE))
                    /\ Return(<<WrapError(<<"failed", "to", "list", "issues:">>, <<>>, e)>>)
                    /\ UNCHANGED <<opts, issues>>
               \/ \E l \in IssueLists :
                    /\ calls' = Append(calls, Outcome(call, TRUE))
                    /\ issues' = l
                    /\ pc' = "SelectParentIssue"
                    /\ UNCHANGED <<opts, err>>

\* "#<number> <title>" with the title cut to 47 characters and "..." past 50
IssueOption(issue) ==
    [Number |-> issue.Number,
     Title |-> IF Len(issue.Title) > 50
               THEN SubSeq(issue.Title, 1, 47) \o <<".", ".", ".">>
               ELSE issue.Title]

\* SelectParentIssue, called by Run with the listed issues
SelectParentIssue ==
    /\ pc = "SelectParentIssue"
    /\ UNCHANGED debugVars
    /\ UNCHANGED <<r, issues, body, result, linkErr, projects, selectedProject, nodeID,
                   out, args, parsed,
                   mainVars, listVars, reposVars>>
    /\ IF Len(issues) = 0
       THEN /\ Return(<<NewError(MsgNoOpenIssues)>>)
            /\ UNCHANGED <<opts, calls>>
       ELSE /\ \/ \E e \in PromptErrors :
                    /\ calls' = Append(calls, Call("Select",
                           [prompt |-> "Select parent issue",
                            options |-> [i \in 1..Len(issues) |-> IssueOption(issues[i])],
                            ok |-> FALSE, ret |-> 0]))
                    /\ Return(<<e>>)
                    /\ UNCHANGED opts
               \/ \E idx \in 1..Len(issues) :
                    /\ calls' = Append(calls, Call("Select",
                           [prompt |-> "Select parent issue",
                            options |-> [i \in 1..Len(issues) |-> IssueOption(issues[i])],
                            ok |-> TRUE, ret |-> idx]))
                    /\ opts' = [opts EXCEPT !.Parent = issues[idx].Number]
                    /\ pc' = "ResolveTitle"
                    /\ UNCHANGED err

\* variant: the title test looks at the body
NeedTitleInputBody(o) == o.Body = <<>>

\* Run, `if opts.Title == ""`
NeedTitleInput(o) == o.Title = <<>>

\* variant: the answer to the title prompt is trimmed but not tested
ResolveTitleUntested ==
    /\ pc = "ResolveTitle"
    /\ UNCHANGED debugVars
    /\ UNCHANGED <<r, issues, body, result, linkErr, projects, selectedProject, nodeID,
                   out, args, parsed,
                   mainVars, listVars, reposVars>>
    /\ IF ~NeedTitleInput(opts)
       THEN /\ pc' = "ReadBody"
            /\ UNCHANGED <<opts, calls, err>>
       ELSE IF ~r.Prompter
       THEN /\ Return(<<NewError(MsgTitleRequired)>>)
            /\ UNCHANGED <<opts, calls>>
       ELSE \/ \E e \in PromptErrors :
                 /\ calls' = Append(calls, Call("Input", [prompt |-> "Title", ok |-> FALSE, ret |-> <<>>]))
                 /\ Return(<<WrapError(<<"failed", "to", "get", "title:">>, <<>>, e)>>)
                 /\ UNCHANGED opts
            \/ \E text \in InputTexts :
                 /\ calls' = Append(calls, Call("Input", [prompt |-> "Title", ok |-> TRUE, ret |-> text]))
                 /\ opts' = [opts EXCEPT !.Title = TrimSpace(text)]
                 /\ pc' = "ReadBody"
                 /\ UNCHANGED err

\* Run, "If no title specified, prompt interactively"
ResolveTitle ==
    /\ pc = "ResolveTitle"
    /\ UNCHANGED debugVars
    /\ UNCHANGED <<r, issues, body, result, linkErr, projects, selectedProject, nodeID,
                   out, args, parsed,
                   mainVars, listVars, reposVars>>
    /\ IF ~NeedTitleInput(opts)
       THEN /\ pc' = "ReadBody"
            /\ UNCHANGED <<opts, calls, err>>
       ELSE IF ~r.Prompter
       THEN /\ Return(<<NewError(MsgTitleRequired)>>)
            /\ UNCHANGED <<opts, calls>>
       ELSE \/ \E e \in PromptErrors :
                 /\ calls' = Append(calls, Call("Input", [prompt |-> "Title", ok |-> FALSE, ret |-> <<>>]))
                 /\ Return(<<WrapError(<<"failed", "to", "get", "title:">>, <<>>, e)>>)
                 /\ UNCHANGED opts
            \/ \E text \in InputTexts :
                 /\ calls' = Append(calls, Call("Input", [prompt |-> "Title", ok |-> TRUE, ret |-> text]))
                 /\ IF TrimSpace(text) = <<>>
                    THEN /\ Return(<<NewError(MsgTitleEmpty)>>)
                         /\ UNCHANGED opts
                    ELSE /\ opts' = [opts EXCEPT !.Title = TrimSpace(text)]
                         /\ pc' = "ReadBody"
                         /\ UNCHANGED err

\* ReadBody: "-" reads the standard input stream, anything else names a file
ReadBody(path, stdin) ==
    IF path = <<"-">>
    THEN IF ~stdin
         THEN {[data |-> <<>>, err |-> <<NewError(<<"stdin", "is", "nil">>)>>]}
         ELSE {[data |-> <<"stdin text">>, err |-> <<>>],
               [data |-> <<>>, err |-> <<WrapError(<<"failed", "to", "read", "from", "stdin:">>,
                                                 <<>>, NewError(<<"read", "error">>))>>]}
    ELSE {[data |-> <<"file text">>, err |-> <<>>],
          [data |-> <<>>, err |-> <<WrapError(<<"failed", "to", "read", "file", "%q:">>,
                                            <<path>>, NewError(<<"no", "such", "file">>))>>]}

\* Run, "Read body from file if specified"
ReadBodyStep ==
    /\ pc = "ReadBody"
    /\ UNCHANGED debugVars
    /\ UNCHANGED <<opts, r, issues, result, linkErr, projects, selectedProject, nodeID,
                   out, args, parsed,
                   mainVars, listVars, reposVars>>
    /\ IF opts.BodyFile = <<>>
       THEN /\ body' = opts.Body
            /\ pc' = "ValidateParent"
            /\ UNCHANGED <<calls, err>>
       ELSE \E res \in ReadBody(opts.BodyFile, r.Stdin) :
              /\ calls' = Append(calls, Outcome(Call("ReadBody", [path |-> opts.BodyFile]),
                                                res.err = <<>>))
              /\ IF res.err # <<>>
                 THEN /\ Return(res.err)
                      /\ body' = res.data
                 ELSE /\ body' = res.data
                      /\ pc' = "ValidateParent"
                      /\ UNCHANGED err

\* variant: a failed GetIssue does not stop Run
ValidateParentIgnoringError ==
    /\ pc = "ValidateParent"
    /\ UNCHANGED debugVars
    /\ UNCHANGED <<opts, r, issues, body, result, linkErr, projects, selectedProject,
                   nodeID, out, args, parsed, err,
                   mainVars, listVars, reposVars>>
    /\ pc' = "CreateIssue"
    /\ IF ~r.ValidateParent
       THEN UNCHANGED calls
       ELSE \E ok \in BOOLEAN :
               calls' = Append(calls, Outcome(Call("GetIssue",
                   [Owner |-> r.Owner, Repo |-> r.Repo, Number |-> opts.Parent]), ok))

\* variant: the parent is fetched whatever the runner's ValidateParent says
ValidateParentAlways ==
    /\ pc = "ValidateParent"
    /\ UNCHANGED debugVars
    /\ UNCHANGED <<opts, r, issues, body, result, linkErr, projects, selectedProject,
                   nodeID, out, args, parsed,
                   mainVars, listVars, reposVars>>
    /\ LET call == Call("GetIssue",
            [Owner |-> r.Owner, Repo |-> r.Repo, Number |-> opts.Parent])
       IN \/ \E e \in ClientErrors("get issue") :
               /\ calls' = Append(calls, Outcome(call, FALSE))
               /\ Return(<<WrapError(<<"parent", "issue", "#%d", "not", "found:">>,
                                     <<opts.Parent>>, e)>>)
          \/ /\ calls' = Append(calls, Outcome(call, TRUE))
             /\ pc' = "CreateIssue"
             /\ UNCHANGED err

\* Run, "Validate parent exists if requested"
ValidateParent ==
    /\ pc = "ValidateParent"
    /\ UNCHANGED debugVars
    /\ UNCHANGED <<opts, r, issues, body, result, linkErr, projects, selectedProject,
                   nodeID, out, args, parsed,
                   mainVars, listVars, reposVars>>
    /\ IF ~r.ValidateParent
       THEN /\ pc' = "CreateIssue"
            /\ UNCHANGED <<calls, err>>
       ELSE LET call == Call("GetIssue",
                   [Owner |-> r.Owner, Repo |-> r.Repo, Number |-> opts.Parent])
            IN \/ \E e \in ClientErrors("get issue") :
                    /\ calls' = Append(calls, Outcome(call, FALSE))
                    /\ Return(<<WrapError(<<"parent", "issue", "#%d", "not", "found:">>,
                                          <<opts.Parent>>, e)>>)
               \/ /\ calls' = Append(calls, Outcome(call, TRUE))
                  /\ pc' = "CreateIssue"
                  /\ UNCHANGED err

\* Run, "Create the issue"
CreateIssue ==
    /\ pc = "CreateIssue"
    /\ UNCHANGED debugVars
    /\ UNCHANGED <<opts, r, issues, body, linkErr, projects, selectedProject, nodeID,
                   out, args, parsed,
                   mainVars, listVars, reposVars>>
    /\ LET call == Call("CreateIssue",
            [Owner |-> r.Owner, Repo |-> r.Repo, Title |-> opts.Title, Body |-> body,
             Labels |-> opts.Labels, Assignees |-> opts.Assignees,
             Milestone |-> opts.Milestone])
       IN
       \/ \E e \in ClientErrors("create issue") :
            /\ calls' = Append(calls, Outcome(call, FALSE))
            /\ Return(<<e>>)
            /\ UNCHANGED result
       \/ \E res \in IssueResults :
            /\ calls' = Append(calls, Outcome(call, TRUE))
            /\ result' = <<res>>
            /\ pc' = "LinkSubIssue"
            /\ UNCHANGED err

\* variant: the manual-link command is given the issue number
LinkFailureLinesNumber(e) ==
    <<Line(FmtLinkWarning, <<e>>),
      Line(FmtIssueURL, <<result[1].URL>>),
      Line(FmtManualLink, <<>>),
      Line(FmtLinkCommand, <<r.Owner, r.Repo, opts.Parent, result[1].Number>>)>>

\* the four lines written when linking failed
LinkFailureLines(e) ==
    <<Line(FmtLinkWarning, <<e>>),
      Line(FmtIssueURL, <<result[1].URL>>),
      Line(FmtManualLink, <<>>),
      Line(FmtLinkCommand, <<r.Owner, r.Repo, opts.Parent, result[1].ID>>)>>

\* variant: Run falls through to the report after the link-failure warning
AfterLinkFailureReport == "Report"

\* where Run goes after the link-failure warning: it returns nil
AfterLinkFailure == "Done"

\* variant: a two-state test on the value of the option
ProjectRequestedByValue(project) == project.Value # <<>>

\* whether Run enters addToProject after a successful link
ProjectRequested(project) == project.WasSet


\* variant: the issue number is passed where the internal id belongs
LinkSubIssueByNumber ==
    /\ pc = "LinkSubIssue"
    /\ UNCHANGED debugVars
    /\ UNCHANGED <<opts, r, issues, body, result, projects, selectedProject, nodeID,
                   err, args, parsed,
                   mainVars, listVars, reposVars>>
    /\ LET call == Call("LinkSubIssue",
            [Owner |-> r.Owner, Repo |-> r.Repo, ParentIssue |-> opts.Parent,
             SubIssueID |-> result[1].Number])
       IN
       \/ \E e \in ClientErrors("link sub-issue") :
            /\ calls' = Append(calls, Outcome(call, FALSE))
            /\ linkErr' = <<e>>
            /\ out' = out \o LinkFailureLines(e)
            /\ pc' = AfterLinkFailure
       \/ /\ calls' = Append(calls, Outcome(call, TRUE))
          /\ linkErr' = <<>>
          /\ pc' = IF ProjectRequested(opts.Project) THEN "addToProject" ELSE "Report"
          /\ UNCHANGED out

\* Run, "Link as sub-issue" and the branch on opts.Project.WasSet that follows
LinkSubIssue ==
    /\ pc = "LinkSubIssue"
    /\ UNCHANGED debugVars
    /\ UNCHANGED <<opts, r, issues, body, result, projects, selectedProject, nodeID,
                   err, args, parsed,
                   mainVars, listVars, reposVars>>
    /\ LET call == Call("LinkSubIssue",
            [Owner |-> r.Owner, Repo |-> r.Repo, ParentIssue |-> opts.Parent,
             SubIssueID |-> result[1].ID])
       IN
       \/ \E e \in ClientErrors("link sub-issue") :
            /\ calls' = Append(calls, Outcome(call, FALSE))
            /\ linkErr' = <<e>>
            /\ out' = out \o LinkFailureLines(e)
            /\ pc' = AfterLinkFailure
       \/ /\ calls' = Append(calls, Outcome(call, TRUE))
          /\ linkErr' = <<>>
          /\ pc' = IF ProjectRequested(opts.Project) THEN "addToProject" ELSE "Report"
          /\ UNCHANGED out

\* addToProject, "Find project by name": the first project with that title
RECURSIVE FindProject(_, _)
FindProject(ps, name) ==
    IF ps = <<>> THEN <<>>
    ELSE IF Head(ps).Title = name THEN <<Head(ps)>>
    ELSE FindProject(Tail(ps), name)

\* the line addToProject writes when the project option is empty and there
\* is no Prompter
NoPrompterProjectWarning(ps) == Line(FmtProjectNameRequired, <<>>)

\* addToProject: ListProjects and the choice between picker and lookup by name
addToProject ==
    /\ pc = "addToProject"
    /\ UNCHANGED debugVars
    /\ UNCHANGED <<opts, r, issues, body, result, linkErr, nodeID, err, args, parsed,
                   mainVars, listVars, reposVars>>
    /\ LET call == Call("ListProjects", [Owner |-> r.Owner, Repo |-> r.Repo])
       IN
       \/ \E e \in ClientErrors("list projects") :
            /\ calls' = Append(calls, Outcome(call, FALSE))
            /\ out' = Append(out, Line(FmtListProjectsWarning, <<e>>))
            /\ pc' = "Report"
            /\ UNCHANGED <<projects, selectedProject>>
       \/ \E ps \in ProjectLists :
            /\ calls' = Append(calls, Outcome(call, TRUE))
            /\ projects' = ps
            /\ IF opts.Project.Value = <<>>
               THEN IF ~r.Prompter
                    THEN /\ out' = Append(out, NoPrompterProjectWarning(ps))
                         /\ pc' = "Report"
                         /\ UNCHANGED selectedProject
                    ELSE IF Len(ps) = 0
                    THEN /\ out' = Append(out, Line(FmtNoProjects, <<>>))
                         /\ pc' = "Report"
                         /\ UNCHANGED selectedProject
                    ELSE /\ pc' = "SelectProject"
                         /\ UNCHANGED <<out, selectedProject>>
               ELSE IF FindProject(ps, opts.Project.Value) = <<>>
                    THEN /\ out' = Append(out, Line(FmtProjectNotFound, <<opts.Project.Value>>))
                         /\ pc' = "Report"
                         /\ UNCHANGED selectedProject
                    ELSE /\ selectedProject' = FindProject(ps, opts.Project.Value)
                         /\ pc' = "GetIssueNodeID"
                         /\ UNCHANGED out

\* "Project Title (#N)"
ProjectOption(project) == [Title |-> project.Title, Number |-> project.Number]

\* variant: the project is looked up by the text of the chosen option
SelectProjectByLabel ==
    /\ pc = "SelectProject"
    /\ UNCHANGED debugVars
    /\ UNCHANGED <<opts, r, issues, body, result, linkErr, projects, nodeID, err, args, parsed,
                   mainVars, listVars, reposVars>>
    /\ IF Len(projects) = 0
       THEN /\ out' = Append(out, Line(FmtSelectProjectWarning, <<NewError(MsgNoProjects)>>))
            /\ pc' = "Report"
            /\ UNCHANGED <<calls, selectedProject>>
       ELSE /\ \/ \E e \in PromptErrors :
                    /\ calls' = Append(calls, Call("Select",
                           [prompt |-> "Select project",
                            options |-> [i \in 1..Len(projects) |-> ProjectOption(projects[i])],
                            ok |-> FALSE, ret |-> 0]))
                    /\ out' = Append(out, Line(FmtSelectProjectWarning, <<e>>))
                    /\ pc' = "Report"
                    /\ UNCHANGED selectedProject
               \/ \E idx \in 1..Len(projects) :
                    /\ calls' = Append(calls, Call("Select",
                           [prompt |-> "Select project",
                            options |-> [i \in 1..Len(projects) |-> ProjectOption(projects[i])],
                            ok |-> TRUE, ret |-> idx]))
                    /\ LET first == CHOOSE k \in 1..Len(projects) :
                                    /\ ProjectOption(projects[k]) = ProjectOption(projects[idx])
                                    /\ \A m \in 1..(k - 1) :
                                          ProjectOption(projects[m]) # ProjectOption(projects[idx])
                       IN  selectedProject' = <<projects[first]>>
                    /\ pc' = "GetIssueNodeID"
                    /\ UNCHANGED out

\* SelectProject, called by addToProject with a non-empty list
SelectProject ==
    /\ pc = "SelectProject"
    /\ UNCHANGED debugVars
    /\ UNCHANGED <<opts, r, issues, body, result, linkErr, projects, nodeID, err, args, parsed,
                   mainVars, listVars, reposVars>>
    /\ IF Len(projects) = 0
       THEN /\ out' = Append(out, Line(FmtSelectProjectWarning, <<NewError(MsgNoProjects)>>))
            /\ pc' = "Report"
            /\ UNCHANGED <<calls, selectedProject>>
       ELSE /\ \/ \E e \in PromptErrors :
                    /\ calls' = Append(calls, Call("Select",
                           [prompt |-> "Select project",
                            options |-> [i \in 1..Len(projects) |-> ProjectOption(projects[i])],
                            ok |-> FALSE, ret |-> 0]))
                    /\ out' = Append(out, Line(FmtSelectProjectWarning, <<e>>))
                    /\ pc' = "Report"
                    /\ UNCHANGED selectedProject
               \/ \E idx \in 1..Len(projects) :
                    /\ calls' = Append(calls, Call("Select",
                           [prompt |-> "Select project",
                            options |-> [i \in 1..Len(projects) |-> ProjectOption(projects[i])],
                            ok |-> TRUE, ret |-> idx]))
                    /\ selectedProject' = <<projects[idx]>>
                    /\ pc' = "GetIssueNodeID"
                    /\ UNCHANGED out

\* addToProject, "Get issue node ID for GraphQL"
GetIssueNodeID ==
    /\ pc = "GetIssueNodeID"
    /\ UNCHANGED debugVars
    /\ UNCHANGED <<opts, r, issues, body, result, linkErr, projects, selectedProject,
                   err, args, parsed,
                   mainVars, listVars, reposVars>>
    /\ LET call == Call("GetIssueNodeID",
            [Owner |-> r.Owner, Repo |-> r.Repo, Number |-> result[1].Number])
       IN
       \/ \E e \in ClientErrors("get issue node ID") :
            /\ calls' = Append(calls, Outcome(call, FALSE))
            /\ out' = Append(out, Line(FmtNodeIDWarning, <<e>>))
            /\ pc' = "Report"
            /\ UNCHANGED nodeID
       \/ \E id \in NodeIDs :
            /\ calls' = Append(calls, Outcome(call, TRUE))
            /\ nodeID' = id
            /\ pc' = "AddIssueToProject"
            /\ UNCHANGED out

\* variant: a failed AddIssueToProject makes Run fail
AddIssueToProjectFatal ==
    /\ pc = "AddIssueToProject"
    /\ UNCHANGED debugVars
    /\ UNCHANGED <<opts, r, issues, body, result, linkErr, projects, selectedProject,
                   nodeID, args, parsed,
                   mainVars, listVars, reposVars>>
    /\ calls' = Append(calls, Call("AddIssueToProject",
            [ProjectID |-> selectedProject[1].ID, IssueNodeID |-> nodeID]))
    /\ \/ \E e \in ClientErrors("add issue to project") :
            /\ Return(<<e>>)
            /\ UNCHANGED out
       \/ /\ pc' = "Report"
          /\ UNCHANGED <<out, err>>

\* addToProject, "Add issue to project"
AddIssueToProject ==
    /\ pc = "AddIssueToProject"
    /\ UNCHANGED debugVars
    /\ UNCHANGED <<opts, r, issues, body, result, linkErr, projects, selectedProject,
                   nodeID, err, args, parsed,
                   mainVars, listVars, reposVars>>
    /\ pc' = "Report"
    /\ LET call == Call("AddIssueToProject",
            [ProjectID |-> selectedProject[1].ID, IssueNodeID |-> nodeID])
       IN
       \/ \E e \in ClientErrors("add issue to project") :
            /\ calls' = Append(calls, Outcome(call, FALSE))
            /\ out' = Append(out, Line(FmtAddProjectWarning, <<e>>))
       \/ /\ calls' = Append(calls, Outcome(call, TRUE))
          /\ UNCHANGED out

\* variant: a failed OpenBrowser is returned as the error of Run
ReportBrowserFatal ==
    /\ pc = "Report"
    /\ UNCHANGED debugVars
    /\ UNCHANGED <<opts, r, issues, body, result, linkErr, projects, selectedProject,
                   nodeID, args, parsed,
                   mainVars, listVars, reposVars>>
    /\ pc' = "Done"
    /\ out' = Append(out, Line(FmtURL, <<result[1].URL>>))
    /\ IF opts.Web /\ r.OpenBrowser
       THEN /\ calls' = Append(calls, Call("OpenBrowser", [url |-> result[1].URL]))
            /\ \/ \E e \in BrowserErrors : err' = <<e>>
               \/ err' = <<>>
       ELSE /\ err' = <<>>
            /\ UNCHANGED calls

\* Run, from Fprintln(result.URL) to the final return nil
Report ==
    /\ pc = "Report"
    /\ UNCHANGED debugVars
    /\ UNCHANGED <<opts, r, issues, body, result, linkErr, projects, selectedProject,
                   nodeID, args, parsed,
                   mainVars, listVars, reposVars>>
    /\ Return(<<>>)
    /\ IF opts.Web /\ r.OpenBrowser
       THEN LET call == Call("OpenBrowser", [url |-> result[1].URL])
            IN \/ \E e \in BrowserErrors :
                    /\ calls' = Append(calls, Outcome(call, FALSE))
                    /\ out' = out \o <<Line(FmtURL, <<result[1].URL>>),
                                       Line(FmtBrowserWarning, <<e>>)>>
               \/ /\ calls' = Append(calls, Outcome(call, TRUE))
                  /\ out' = Append(out, Line(FmtURL, <<result[1].URL>>))
       ELSE /\ out' = Append(out, Line(FmtURL, <<result[1].URL>>))
            /\ UNCHANGED calls

-----------------------------------------------------------------------------
(* Flag parsing: ParseFlags (create) and ParseEditFlags (edit).            *)
(* An argument is its sequence of lexical atoms: "--project" is            *)
(* <<"-", "-", "project">>, "--project=Roadmap" is                         *)
(* <<"-", "-", "project", "=", "Roadmap">>, "Roadmap" is <<"Roadmap">>     *)
(* and the empty argument "" is <<>>.                                      *)

\* variant: an empty value does not count as set
OptionalStringSetNonEmpty(o, value) == [Value |-> value, WasSet |-> value # <<>>]

\* OptionalString.Set: records the value and that the flag was given
OptionalStringSet(o, value) == [Value |-> value, WasSet |-> TRUE]

\* strconv.Atoi / the flag package's int parsing on the numerals of the model
Numerals == {<<"0">>, <<"7">>, <<"42">>}
Atoi(s) == IF s = <<"0">> THEN 0 ELSE IF s = <<"7">> THEN 7 ELSE 42

\* strconv.ParseBool
BoolTrue == {<<"1">>, <<"t">>, <<"T">>, <<"true">>, <<"TRUE">>, <<"True">>}
BoolFalse == {<<"0">>, <<"f">>, <<"F">>, <<"false">>, <<"FALSE">>, <<"False">>}

\* the zero Options value ParseFlags starts from
ZeroOptions ==
    [Parent |-> 0, Title |-> <<>>, Body |-> <<>>, BodyFile |-> <<>>, Repo |-> <<>>,
     Assignees |-> <<>>, Labels |-> <<>>, Milestone |-> 0, Web |-> FALSE,
     Project |-> Unset]

\* the flags ParseFlags registers: name -> field and kind of flag.Value
CreateFlags ==
    (<<"parent">> :> [field |-> "Parent", kind |-> "int"])
    @@ (<<"p">> :> [field |-> "Parent", kind |-> "int"])
    @@ (<<"title">> :> [field |-> "Title", kind |-> "string"])
    @@ (<<"t">> :> [field |-> "Title", kind |-> "string"])
    @@ (<<"body">> :> [field |-> "Body", kind |-> "string"])
    @@ (<<"b">> :> [field |-> "Body", kind |-> "string"])
    @@ (<<"body-file">> :> [field |-> "BodyFile", kind |-> "string"])
    @@ (<<"repo">> :> [field |-> "Repo", kind |-> "string"])
    @@ (<<"R">> :> [field |-> "Repo", kind |-> "string"])
    @@ (<<"assignee">> :> [field |-> "Assignees", kind |-> "slice"])
    @@ (<<"a">> :> [field |-> "Assignees", kind |-> "slice"])
    @@ (<<"label">> :> [field |-> "Labels", kind |-> "slice"])
    @@ (<<"l">> :> [field |-> "Labels", kind |-> "slice"])
    @@ (<<"milestone">> :> [field |-> "Milestone", kind |-> "int"])
    @@ (<<"m">> :> [field |-> "Milestone", kind |-> "int"])
    @@ (<<"web">> :> [field |-> "Web", kind |-> "bool"])
    @@ (<<"w">> :> [field |-> "Web", kind |-> "bool"])
    @@ (<<"project">> :> [field |-> "Project", kind |-> "optional"])
    @@ (<<"P">> :> [field |-> "Project", kind |-> "optional"])

\* the zero EditOptions value and the flags ParseEditFlags registers
ZeroEditOptions == [IssueNumber |-> 0, Project |-> Unset, Repo |-> <<>>]

EditFlags ==
    (<<"project">> :> [field |-> "Project", kind |-> "optional"])
    @@ (<<"P">> :> [field |-> "Project", kind |-> "optional"])
    @@ (<<"repo">> :> [field |-> "Repo", kind |-> "string"])
    @@ (<<"R">> :> [field |-> "Repo", kind |-> "string"])

\* position of the first "=" of a flag name at index 2 or later, 0 if none
EqualsAt(name) ==
    IF \E i \in 2..Len(name) : name[i] = "="
    THEN CHOOSE i \in 2..Len(name) :
             /\ name[i] = "="
             /\ \A j \in 2..(i - 1) : name[j] # "="
    ELSE 0

\* flag.Value.Set for each kind of flag; <<>> when the value is rejected
SetFlag(o, flag, value) ==
    CASE flag.kind = "int" ->
            IF value \in Numerals THEN <<[o EXCEPT ![flag.field] = Atoi(value)]>> ELSE <<>>
      [] flag.kind = "string" -> <<[o EXCEPT ![flag.field] = value]>>
      [] flag.kind = "slice" -> <<[o EXCEPT ![flag.field] = Append(@, value)]>>
      [] flag.kind = "bool" ->
            IF value \in BoolTrue THEN <<[o EXCEPT ![flag.field] = TRUE]>>
            ELSE IF value \in BoolFalse THEN <<[o EXCEPT ![flag.field] = FALSE]>>
            ELSE <<>>
      [] flag.kind = "optional" ->
            <<[o EXCEPT ![flag.field] = OptionalStringSet(@, value)]>>

\* fs.Parse(args): flags are consumed from the left until the first argument
\* that is not a flag, or "--"; a flag that is not boolean takes its value
\* after "=" or from the next argument, whatever that argument looks like
RECURSIVE FlagSetParse(_, _, _)
FlagSetParse(formal, o, a) ==
    IF a = <<>> THEN [opts |-> o, err |-> <<>>]
    ELSE
    LET s == Head(a)
        numMinuses == IF Len(s) >= 2 /\ s[2] = "-" THEN 2 ELSE 1
        rest == SubSeq(s, numMinuses + 1, Len(s))
        eq == EqualsAt(rest)
        name == IF eq = 0 THEN rest ELSE SubSeq(rest, 1, eq - 1)
        inline == IF eq = 0 THEN <<>> ELSE SubSeq(rest, eq + 1, Len(rest))
    IN
    IF s = <<>> \/ s = <<"-">> \/ s[1] # "-"
    THEN [opts |-> o, err |-> <<>>]
    ELSE IF s = <<"-", "-">>
    THEN [opts |-> o, err |-> <<>>]
    ELSE IF rest[1] = "-" \/ rest[1] = "="
    THEN [opts |-> o, err |-> <<NewErrorf(<<"bad", "flag", "syntax:", "%s">>, <<s>>)>>]
    ELSE IF name \notin DOMAIN formal
    THEN [opts |-> o,
          err |-> <<NewErrorf(<<"flag", "provided", "but", "not", "defined:", "-%s">>, <<name>>)>>]
    ELSE
    LET flag == formal[name]
        isBool == flag.kind = "bool"
        hasValue == eq # 0 \/ (~isBool /\ Len(a) > 1)
        value == IF eq # 0 THEN inline
                 ELSE IF isBool THEN <<"true">>
                 ELSE IF Len(a) > 1 THEN a[2] ELSE <<>>
        remaining == IF eq # 0 \/ isBool THEN Tail(a)
                     ELSE IF Len(a) > 1 THEN Tail(Tail(a)) ELSE <<>>
        set == SetFlag(o, flag, value)
    IN
    IF ~isBool /\ ~hasValue
    THEN [opts |-> o,
          err |-> <<NewErrorf(<<"flag", "needs", "an", "argument:", "-%s">>, <<name>>)>>]
    ELSE IF set = <<>>
    THEN [opts |-> o,
          err |-> <<NewErrorf(<<"invalid", "value", "%q", "for", "flag", "-%s">>, <<value, name>>)>>]
    ELSE FlagSetParse(formal, set[1], remaining)

\* ParseFlags(args)
ParseFlags(a) == FlagSetParse(CreateFlags, ZeroOptions, a)

\* ParseEditFlags(args): the first argument is the issue number
ParseEditFlags(a) ==
    IF Len(a) = 0
    THEN [opts |-> ZeroEditOptions,
          err |-> <<NewError(<<"issue", "number", "is", "required">>)>>]
    ELSE IF a[1] \notin Numerals
    THEN [opts |-> ZeroEditOptions,
          err |-> <<NewErrorf(<<"invalid", "issue", "number:", "%s">>, <<a[1]>>)>>]
    ELSE IF Len(a) > 1
    THEN FlagSetParse(EditFlags, [ZeroEditOptions EXCEPT !.IssueNumber = Atoi(a[1])], Tail(a))
    ELSE [opts |-> [ZeroEditOptions EXCEPT !.IssueNumber = Atoi(a[1])], err |-> <<>>]

\* the arguments the command lines of the model are made of
Arguments ==
    {<<"-", "-", "project">>, <<"-", "P">>, <<"-", "-", "project", "=", "Roadmap">>,
     <<"Roadmap">>, <<>>, <<"42">>, <<"-", "-", "web">>}

CommandLines == SeqsUpTo(Arguments, MaxArgs)

InitFlags ==
    /\ pc \in {"ParseFlags", "ParseEditFlags"}
    /\ args \in CommandLines
    /\ parsed = <<>>
    /\ opts = ZeroOptions
    /\ r = [Owner |-> "", Repo |-> "", Prompter |-> FALSE, Stdin |-> FALSE,
            ValidateParent |-> FALSE, OpenBrowser |-> FALSE]
    /\ issues = <<>>
    /\ body = <<>>
    /\ result = <<>>
    /\ linkErr = <<>>
    /\ projects = <<>>
    /\ selectedProject = <<>>
    /\ nodeID = ""
    /\ calls = <<>>
    /\ out = <<>>
    /\ err = <<>>
    /\ InitMainVars
    /\ InitListVars
    /\ InitReposVars
    /\ InitDebugVars

\* runCreate: opts, err := cmd.ParseFlags(args)
ParseFlagsStep ==
    /\ pc = "ParseFlags"
    /\ UNCHANGED debugVars
    /\ parsed' = <<ParseFlags(args)>>
    /\ pc' = "Parsed"
    /\ UNCHANGED <<opts, r, issues, body, result, linkErr, projects, selectedProject,
                   nodeID, calls, out, err, args,
                   mainVars, listVars, reposVars>>

\* runEdit: opts, err := cmd.ParseEditFlags(args)
ParseEditFlagsStep ==
    /\ pc = "ParseEditFlags"
    /\ UNCHANGED debugVars
    /\ parsed' = <<ParseEditFlags(args)>>
    /\ pc' = "ParsedEdit"
    /\ UNCHANGED <<opts, r, issues, body, result, linkErr, projects, selectedProject,
                   nodeID, calls, out, err, args,
                   mainVars, listVars, reposVars>>

NextFlags ==
    \/ ParseFlagsStep
    \/ ParseEditFlagsStep

SpecFlags == InitFlags /\ [][NextFlags]_vars

Next ==
    \/ ResolveParent
    \/ SelectParentIssue
    \/ ResolveTitle
    \/ ReadBodyStep
    \/ ValidateParent
    \/ CreateIssue
    \/ LinkSubIssue
    \/ addToProject
    \/ SelectProject
    \/ GetIssueNodeID
    \/ AddIssueToProject
    \/ Report

Init ==
    /\ InitRun
    /\ args = <<>>
    /\ parsed = <<>>
    /\ InitMainVars
    /\ InitListVars
    /\ InitReposVars
    /\ InitDebugVars

Spec == Init /\ [][Next]_vars

-----------------------------------------------------------------------------
(* Properties of the create workflow *)

Done == pc = "Done"

OutFmts == {out[i].fmt : i \in 1..Len(out)}

LinkFailed == linkErr # <<>>

LinkSucceeded == Called("LinkSubIssue") /\ linkErr = <<>>

SelectCalls(prompt) ==
    {i \in 1..Len(calls) : calls[i].op = "Select" /\ calls[i].args.prompt = prompt}

ProjectWarningFmts ==
    {FmtListProjectsWarning, FmtProjectNameRequired, FmtNoProjects,
     FmtSelectProjectWarning, FmtProjectNotFound, FmtNodeIDWarning, FmtAddProjectWarning}

\* C1: when CreateIssue succeeded and LinkSubIssue failed, Run has returned
\* nil, the output holds the link warning, the created issue's URL and the
\* manual-link command whose sub_issue_id is the internal id, and no project
\* operation was called, whatever the project option is.
C1_LinkFailureIsWarning ==
    LinkFailed =>
        /\ pc = "Done"
        /\ err = <<>>
        /\ \E i \in 1..Len(out) : out[i].fmt = FmtLinkWarning
        /\ \E i \in 1..Len(out) :
              out[i].fmt = FmtIssueURL /\ out[i].args[1] = result[1].URL
        /\ \E i \in 1..Len(out) :
              out[i].fmt = FmtLinkCommand /\ out[i].args[4] = result[1].ID
        /\ CallOps \cap ProjectOps = {}

C1_Witness == LinkFailed /\ opts.Project.WasSet /\ pc = "Done"

\* C2: Run returns an error exactly when it stopped before CreateIssue
\* succeeded; once an issue was created the result is nil, and a failed Run
\* never got as far as linking, project assignment or the browser.
C2_FailsOnlyBeforeCreate ==
    /\ pc = "Done" => ((err # <<>>) <=> (result = <<>>))
    /\ result # <<>> => err = <<>>
    /\ err # <<>> => CallOps \cap ({"LinkSubIssue", "OpenBrowser"} \cup ProjectOps) = {}

C2_Witness ==
    /\ pc = "Done"
    /\ err = <<>>
    /\ FmtAddProjectWarning \in OutFmts
    /\ FmtBrowserWarning \in OutFmts

\* C3: with parent 0 and no Prompter, Run stops at once with an error that
\* contains "--parent" and "not running interactively" and no API operation
\* is invoked.
C3_NoPrompterRequiresParent ==
    (opts.Parent = 0 /\ ~r.Prompter) =>
        /\ pc \in {"ResolveParent", "Done"}
        /\ CallOps \cap ClientOps = {}
        /\ pc = "Done" =>
              /\ err # <<>>
              /\ Contains(ErrorText(err[1]), <<"--parent">>)
              /\ Contains(ErrorText(err[1]), <<"not", "running", "interactively">>)

C3_Witness == opts.Parent = 0 /\ ~r.Prompter /\ pc = "Done" /\ err # <<>>

\* C4 as stated: with an empty title and no Prompter, Run fails with an
\* error naming --title and CreateIssue is never called.
C4_Original ==
    (opts.Title = <<>> /\ ~r.Prompter /\ pc = "Done") =>
        /\ err # <<>>
        /\ Contains(ErrorText(err[1]), <<"--title">>)
        /\ ~Called("CreateIssue")

\* C4 amended: with an empty title and no Prompter, Run fails and CreateIssue
\* is never called; the error names --title when the parent option is not 0
\* (with parent 0 the parent step fails first).
C4_NoPrompterRequiresTitle ==
    (opts.Title = <<>> /\ ~r.Prompter) =>
        /\ ~Called("CreateIssue")
        /\ pc = "Done" =>
              /\ err # <<>>
              /\ opts.Parent # 0 => Contains(ErrorText(err[1]), <<"--title">>)

C4_Witness == opts.Title = <<>> /\ ~r.Prompter /\ opts.Parent # 0 /\ pc = "Done"

\* t is raw without its leading and trailing whitespace
IsTrimOf(t, raw) ==
    \E i, j \in 0..Len(raw) :
        /\ i + j <= Len(raw)
        /\ t = SubSeq(raw, i + 1, Len(raw) - j)
        /\ \A k \in 1..i : IsSpace(raw[k])
        /\ \A k \in (Len(raw) - j + 1)..Len(raw) : IsSpace(raw[k])
        /\ t # <<>> => (~IsSpace(t[1]) /\ ~IsSpace(t[Len(t)]))

IsBlank(raw) == \A k \in 1..Len(raw) : IsSpace(raw[k])

\* C5: the text answered at the title prompt is trimmed: a blank answer
\* makes Run fail with "title cannot be empty" without CreateIssue; any
\* other answer becomes, trimmed, the title of every CreateIssue call.
C5_TitlePromptTrimmed ==
    \A i \in 1..Len(calls) :
        (calls[i].op = "Input" /\ calls[i].args.ok) =>
            LET raw == calls[i].args.ret
            IN  IF IsBlank(raw)
                THEN /\ pc = "Done"
                     /\ err = <<NewError(MsgTitleEmpty)>>
                     /\ ~Called("CreateIssue")
                ELSE /\ IsTrimOf(opts.Title, raw)
                     /\ \A j \in 1..Len(calls) :
                           calls[j].op = "CreateIssue" =>
                               IsTrimOf(calls[j].args.Title, raw)

C5_Witness ==
    \E i, j \in 1..Len(calls) :
        /\ calls[i].op = "Input"
        /\ calls[i].args.ok
        /\ calls[j].op = "CreateIssue"
        /\ calls[j].args.Title # calls[i].args.ret

\* C6: after a successful link the project option has three behaviours:
\* unset never lists projects; set-empty lists them and, with a Prompter and
\* a non-empty list, calls Select; set-value lists them, picks the project
\* whose title equals the value and never calls Select.
C6_ProjectOptionTriState ==
    /\ ~opts.Project.WasSet =>
          /\ CallOps \cap ProjectOps = {}
          /\ SelectCalls("Select project") = {}
    /\ (pc = "Done" /\ LinkSucceeded /\ opts.Project = SetEmpty) =>
          /\ Called("ListProjects")
          /\ (r.Prompter /\ projects # <<>>) => SelectCalls("Select project") # {}
    /\ (opts.Project.WasSet /\ opts.Project.Value # <<>>) =>
          /\ SelectCalls("Select project") = {}
          /\ (pc = "Done" /\ LinkSucceeded) =>
                /\ Called("ListProjects")
                /\ selectedProject # <<>> =>
                      selectedProject[1].Title = opts.Project.Value
                /\ FmtListProjectsWarning \notin OutFmts =>
                      (selectedProject = <<>> <=>
                          \A i \in 1..Len(projects) :
                              projects[i].Title # opts.Project.Value)

C6_Witness ==
    /\ pc = "Done"
    /\ LinkSucceeded
    /\ opts.Project = SetEmpty
    /\ SelectCalls("Select project") # {}
    /\ Called("AddIssueToProject")

\* the spellings of the project flag without an inline value
ProjectFlagForms == {<<"-", "-", "project">>, <<"-", "P">>}

IsProjectFlag(a) ==
    /\ Len(a) >= 2
    /\ a[1] = "-"
    /\ \/ a[2] \in {"project", "P"}
       \/ Len(a) >= 3 /\ a[2] = "-" /\ a[3] \in {"project", "P"}

\* C7: for ParseFlags, and for ParseEditFlags after the issue number,
\* `--project Roadmap` gives {WasSet: true, Value: "Roadmap"}, `--project ""`
\* gives {WasSet: true, Value: ""} and a command line without the flag gives
\* {WasSet: false}.
C7_ProjectFlagTriState ==
    (/\ pc \in {"Parsed", "ParsedEdit"}
     /\ pc = "ParsedEdit" => (args # <<>> /\ args[1] \in Numerals)) =>
        LET flags == IF pc = "Parsed" THEN args ELSE Tail(args)
            p == parsed[1]
        IN  /\ \A f \in ProjectFlagForms, v \in {<<"Roadmap">>, <<>>} :
                  flags = <<f, v>> =>
                      /\ p.err = <<>>
                      /\ p.opts.Project = [Value |-> v, WasSet |-> TRUE]
            /\ (\A i \in 1..Len(flags) : ~IsProjectFlag(flags[i])) =>
                  p.opts.Project = [Value |-> <<>>, WasSet |-> FALSE]

C7_Witness ==
    /\ pc = "ParsedEdit"
    /\ args = <<<<"42">>, <<"-", "-", "project">>, <<>>>>
    /\ parsed[1].err = <<>>
    /\ parsed[1].opts.Project = SetEmpty

\* C8: once LinkSubIssue succeeded Run returns nil and prints the URL; a
\* project assignment that fails writes one warning line and nothing else,
\* and AddIssueToProject is called only with a selected project and the
\* node id that GetIssueNodeID returned.
C8_ProjectAssignmentBestEffort ==
    LinkSucceeded =>
        /\ err = <<>>
        /\ \A i \in 1..Len(out) :
              out[i].fmt \in ProjectWarningFmts \cup {FmtURL, FmtBrowserWarning}
        /\ pc = "Done" =>
              \E i \in 1..Len(out) :
                  out[i].fmt = FmtURL /\ out[i].args[1] = result[1].URL
        /\ (pc \in {"Report", "Done"} /\ Called("ListProjects")) =>
              LET n == Cardinality({i \in 1..Len(out) : out[i].fmt \in ProjectWarningFmts})
              IN  IF Called("AddIssueToProject") THEN n <= 1 ELSE n = 1
        /\ (Called("GetIssueNodeID") /\ nodeID = "" /\ pc # "GetIssueNodeID") =>
              /\ FmtNodeIDWarning \in OutFmts
              /\ ~Called("AddIssueToProject")
        /\ \A i \in 1..Len(calls) :
              calls[i].op = "AddIssueToProject" =>
                  /\ selectedProject # <<>>
                  /\ nodeID \in NodeIDs
                  /\ calls[i].args = [ProjectID |-> selectedProject[1].ID,
                                      IssueNodeID |-> nodeID]

C8_Witness ==
    /\ pc = "Done"
    /\ LinkSucceeded
    /\ FmtNodeIDWarning \in OutFmts

\* formats of the workflow that spell out a command for the user to run
CommandFmts == {FmtLinkCommand}

\* C9 as stated: with the project option set-empty and no Prompter, the
\* warning written lists the titles of the available projects and an
\* example command.
C9_Claim ==
    (/\ LinkSucceeded
     /\ opts.Project = SetEmpty
     /\ ~r.Prompter
     /\ projects # <<>>
     /\ pc \in {"Report", "Done"}) =>
        \E i \in 1..Len(out) :
            /\ out[i].fmt \in ProjectWarningFmts
            /\ \A k \in 1..Len(projects) :
                  \E a \in 1..Len(out[i].args) : out[i].args[a] = projects[k].Title
            /\ out[i].fmt \in CommandFmts

\* C10 as stated: after a link failure, with the web flag set, the browser
\* opener is invoked with the created issue's URL before Run returns.
C10_Original ==
    (pc = "Done" /\ LinkFailed /\ opts.Web /\ r.OpenBrowser) =>
        \E i \in 1..Len(calls) :
            calls[i].op = "OpenBrowser" /\ calls[i].args.url = result[1].URL

\* C10 amended: after a link failure Run returns nil straight after the
\* warning, which carries the URL: the URL line of the report is not written
\* and the browser opener is not invoked; the opener is invoked, with the
\* created issue's URL, exactly on the link-success path when the web flag
\* is set.
C10_ReportOnlyAfterLink ==
    /\ LinkFailed =>
          /\ pc = "Done"
          /\ err = <<>>
          /\ ~Called("OpenBrowser")
          /\ FmtURL \notin OutFmts
    /\ (pc = "Done" /\ LinkSucceeded /\ opts.Web /\ r.OpenBrowser) =>
          \E i \in 1..Len(calls) :
              calls[i].op = "OpenBrowser" /\ calls[i].args.url = result[1].URL
    /\ Called("OpenBrowser") => (LinkSucceeded /\ opts.Web /\ r.OpenBrowser)

C10_Witness == pc = "Done" /\ LinkFailed /\ opts.Web /\ r.OpenBrowser

-----------------------------------------------------------------------------
(* Repository resolution and the interaction gate of runCreate, runList and *)
(* runEdit. A repository string is a sequence of characters.                *)

RepoChars == {"o", "n", "/"}

\* values of opts.Repo after the flags were parsed
RepoStrings == SeqsUpTo(RepoChars, MaxRepoLen)

\* texts typed at the repository prompt
RepoAnswers == SeqsUpTo(RepoChars \cup {" "}, MaxRepoLen)

\* strings.Split(s, sep) for a separator of one character
RECURSIVE Split(_, _)
Split(s, sep) ==
    IF \E i \in 1..Len(s) : s[i] = sep
    THEN LET i == CHOOSE k \in 1..Len(s) : s[k] = sep /\ \A j \in 1..(k - 1) : s[j] # sep
         IN  <<SubSeq(s, 1, i - 1)>> \o Split(SubSeq(s, i + 1, Len(s)), sep)
    ELSE <<s>>

MsgRepoEmpty == <<"repository", "cannot", "be", "empty">>

MsgRepoFormat == <<"invalid", "repository", "format:", "%q", "(expected", "owner/repo)">>

MsgRepoRequired == <<"repository", "is", "required">>

\* variant: the two parts are returned in the other order
ParseRepoSwapped(s) ==
    IF s = <<>>
    THEN [owner |-> <<>>, repo |-> <<>>, err |-> <<NewError(MsgRepoEmpty)>>]
    ELSE LET parts == Split(s, "/")
         IN  IF Len(parts) # 2
             THEN [owner |-> <<>>, repo |-> <<>>, err |-> <<NewErrorf(MsgRepoFormat, <<s>>)>>]
             ELSE [owner |-> parts[2], repo |-> parts[1], err |-> <<>>]

\* ParseRepo: the three results (owner, repo, err)
ParseRepo(s) ==
    IF s = <<>>
    THEN [owner |-> <<>>, repo |-> <<>>, err |-> <<NewError(MsgRepoEmpty)>>]
    ELSE LET parts == Split(s, "/")
         IN  IF Len(parts) # 2
             THEN [owner |-> <<>>, repo |-> <<>>, err |-> <<NewErrorf(MsgRepoFormat, <<s>>)>>]
             ELSE [owner |-> parts[1], repo |-> parts[2], err |-> <<>>]

\* the subcommands that resolve a repository
Commands == {"create", "list", "edit"}

\* successful results of repository.Current()
CurrentRepos ==
    {[Owner |-> <<"n">>, Name |-> <<"o">>, Host |-> "github.com"],
     [Owner |-> <<"o", "o">>, Name |-> <<"n">>, Host |-> "ghe.example.com"]}

\* term.IsTerminal(os.Stdin): the descriptor alone decides
IsStdinTerminal(e) == e.StdinIsTerminal

\* variant: the output descriptor alone decides
IsTerminalOutputRaw(e) == e.StdoutIsTerminal

\* term.FromEnv().IsTerminalOutput(): GH_FORCE_TTY set, or the descriptor is a terminal
IsTerminalOutput(e) == e.ForceTTY \/ e.StdoutIsTerminal

\* variant: the --repo string is never looked at
HasExplicitRepoNever(o) == FALSE

\* `if opts.Repo != ""`
HasExplicitRepo(o) == o.Repo # <<>>

\* the command shown at the end of the resolution error
RepoExample(command) ==
    IF command = "edit"
    THEN <<"gh", "subissue", "edit", "<issue-number>", "--repo", "owner/repo">>
    ELSE <<"gh", "subissue", command, "--repo", "owner/repo">>

\* fmt.Errorf("could not determine repository: %w ... Then specify with --repo: ...", repoErr)
ResolutionError(command) ==
    WrapError(<<"could", "not", "determine", "repository:", "%w",
                "To", "list", "your", "repositories:", "gh", "repo", "list",
                "Then", "specify", "with", "--repo:">> \o RepoExample(command),
              <<>>, NewError(<<"unable", "to", "determine", "current", "repository">>))

PublicHost == "github.com"

\* variant: every host is served by the public API
BaseURLPublicOnly(h) == <<"https://api.github.com">>

\* "Determine API base URL based on host"
BaseURL(h) ==
    IF h = PublicHost \/ h = "" THEN <<"https://api.github.com">>
    ELSE <<"https://", h, "/api/v3">>

InitMain ==
    /\ pc = "Gate"
    /\ env \in [Command : Commands, StdinIsTerminal : BOOLEAN, StdoutIsTerminal : BOOLEAN,
                ForceTTY : BOOLEAN, Current : {<<>>} \cup {<<c>> : c \in CurrentRepos}]
    /\ opts \in [Repo : RepoStrings]
    /\ r = <<>>
    /\ prompter = FALSE
    /\ owner = <<>>
    /\ repoName = <<>>
    /\ host = ""
    /\ issues = <<>>
    /\ body = <<>>
    /\ result = <<>>
    /\ linkErr = <<>>
    /\ projects = <<>>
    /\ selectedProject = <<>>
    /\ nodeID = ""
    /\ calls = <<>>
    /\ out = <<>>
    /\ err = <<>>
    /\ args = <<>>
    /\ parsed = <<>>
    /\ InitListVars
    /\ InitReposVars
    /\ InitDebugVars

\* "Set up prompter for interactive mode first (needed for repo resolution)"
InteractionGate ==
    /\ pc = "Gate"
    /\ UNCHANGED debugVars
    /\ prompter' = (IsStdinTerminal(env) /\ IsTerminalOutput(env))
    /\ pc' = "ResolveRepo"
    /\ UNCHANGED <<opts, r, issues, body, result, linkErr, projects, selectedProject,
                   nodeID, calls, out, err, args, parsed, env, owner, repoName, host,
                   listVars, reposVars>>

\* "Resolve repository": the explicit, ambient and failing branches, and the
\* decision to prompt
ResolveRepository ==
    /\ pc = "ResolveRepo"
    /\ UNCHANGED debugVars
    /\ UNCHANGED <<opts, r, issues, body, result, linkErr, projects, selectedProject,
                   nodeID, calls, out, args, parsed, env, prompter, listVars, reposVars>>
    /\ IF HasExplicitRepo(opts)
       THEN LET parsedRepo == ParseRepo(opts.Repo)
            IN  IF parsedRepo.err # <<>>
                THEN /\ Return(parsedRepo.err)
                     /\ UNCHANGED <<owner, repoName, host>>
                ELSE /\ owner' = parsedRepo.owner
                     /\ repoName' = parsedRepo.repo
                     /\ host' = IF env.Current # <<>> THEN env.Current[1].Host ELSE PublicHost
                     /\ pc' = "NewClient"
                     /\ UNCHANGED err
       ELSE IF env.Current = <<>>
       THEN IF prompter
            THEN /\ pc' = "PromptRepository"
                 /\ UNCHANGED <<owner, repoName, host, err>>
            ELSE /\ Return(<<ResolutionError(env.Command)>>)
                 /\ UNCHANGED <<owner, repoName, host>>
       ELSE /\ owner' = env.Current[1].Owner
            /\ repoName' = env.Current[1].Name
            /\ host' = env.Current[1].Host
            /\ pc' = "NewClient"
            /\ UNCHANGED err

\* PromptRepository, and `host = "github.com"` after it
PromptRepository ==
    /\ pc = "PromptRepository"
    /\ UNCHANGED debugVars
    /\ UNCHANGED <<opts, r, issues, body, result, linkErr, projects, selectedProject,
                   nodeID, out, args, parsed, env, prompter, listVars, reposVars>>
    /\ \/ \E e \in PromptErrors :
            /\ calls' = Append(calls, Call("Input", [prompt |-> "Repository (owner/repo)",
                                                     ok |-> FALSE, ret |-> <<>>]))
            /\ Return(<<e>>)
            /\ UNCHANGED <<owner, repoName, host>>
       \/ \E text \in RepoAnswers :
            /\ calls' = Append(calls, Call("Input", [prompt |-> "Repository (owner/repo)",
                                                     ok |-> TRUE, ret |-> text]))
            /\ LET input == TrimSpace(text)
                   parsedRepo == ParseRepo(input)
               IN  IF input = <<>>
                   THEN /\ Return(<<NewError(MsgRepoRequired)>>)
                        /\ UNCHANGED <<owner, repoName, host>>
                   ELSE IF parsedRepo.err # <<>>
                   THEN /\ Return(parsedRepo.err)
                        /\ UNCHANGED <<owner, repoName, host>>
                   ELSE /\ owner' = parsedRepo.owner
                        /\ repoName' = parsedRepo.repo
                        /\ host' = PublicHost
                        /\ pc' = "NewClient"
                        /\ UNCHANGED err

\* api.DefaultHTTPClient(), the Client and the Runner, ListRunner or EditRunner
\* that is then run
StartRunner ==
    /\ pc = "NewClient"
    /\ UNCHANGED debugVars
    /\ UNCHANGED <<opts, issues, body, result, linkErr, projects, selectedProject,
                   nodeID, calls, out, args, parsed, mainVars, listVars, reposVars>>
    /\ \/ /\ Return(<<WrapError(<<"failed", "to", "create", "HTTP", "client:">>, <<>>,
                                NewError(<<"authentication", "token", "not", "found">>))>>)
          /\ UNCHANGED r
       \/ /\ r' = <<[Command |-> env.Command, Owner |-> owner, Repo |-> repoName,
                     Prompter |-> prompter, BaseURL |-> BaseURL(host)]>>
          /\ pc' = "Run"
          /\ UNCHANGED err

NextMain ==
    \/ InteractionGate
    \/ ResolveRepository
    \/ PromptRepository
    \/ StartRunner

SpecMain == InitMain /\ [][NextMain]_vars

-----------------------------------------------------------------------------
(* Properties of repository resolution *)

\* the calls of the repository prompt made so far
RepoPromptCalls ==
    {i \in 1..Len(calls) : calls[i].op = "Input"}

\* exactly one "/", with at least one character on each side of it
WellFormedRepo(s) ==
    \E i \in 2..(Len(s) - 1) :
        /\ s[i] = "/"
        /\ \A j \in (1..Len(s)) \ {i} : s[j] # "/"

\* C11: in create, list and edit the repository prompt is reached and shown
\* only when no --repo string was given, the ambient lookup failed and a
\* Prompter exists; it is never shown when --repo is present (well-formed or
\* not) or when the ambient lookup succeeded.
C11_PromptIsLastResort ==
    (pc = "PromptRepository" \/ RepoPromptCalls # {})
        => /\ opts.Repo = <<>>
           /\ env.Current = <<>>
           /\ prompter

C11_Witness ==
    /\ pc = "Run"
    /\ RepoPromptCalls # {}
    /\ r[1].Owner = <<"o">>
    /\ r[1].Repo = <<"n">>

\* C12: for a well-formed --repo string "owner/name" the runner is given
\* exactly the two sides of the string as Owner and Repo, whether the ambient
\* lookup succeeded (with another owner and name) or failed.
C12_ExplicitRepoExact ==
    /\ (pc \in {"NewClient", "Run"} /\ WellFormedRepo(opts.Repo))
          => opts.Repo = owner \o <<"/">> \o repoName
    /\ (pc = "Run" /\ WellFormedRepo(opts.Repo))
          => opts.Repo = r[1].Owner \o <<"/">> \o r[1].Repo

C12_Witness ==
    /\ pc = "Run"
    /\ opts.Repo = <<"o", "/", "n">>
    /\ env.Current # <<>>
    /\ r[1].Owner = <<"o">>
    /\ r[1].Repo = <<"n">>

\* C13: ParseRepo succeeds only for a string with exactly one "/" and a
\* non-empty owner and name around it; for every other --repo string the
\* command ends with the empty-string or the format error.
C13_Claim ==
    (/\ opts.Repo # <<>>
     /\ pc \notin {"Gate", "ResolveRepo"}
     /\ ~WellFormedRepo(opts.Repo))
        => /\ pc = "Done"
           /\ err # <<>>
           /\ err[1].msg \in {MsgRepoEmpty, MsgRepoFormat}

\* C14: a runner is never started with an empty Owner or Repo, and when no
\* repository can be determined the command ends with an error that names
\* --repo without any call on the API client.
C14_Claim ==
    /\ pc = "Run" => (r[1].Owner # <<>> /\ r[1].Repo # <<>>)
    /\ (pc = "Done" /\ opts.Repo = <<>> /\ env.Current = <<>> /\ ~prompter)
          => /\ err # <<>>
             /\ Contains(ErrorText(err[1]), <<"--repo">>)
             /\ CallOps \cap ClientOps = {}

\* C15 as stated: the Prompter exists iff the input and the output stream are
\* both terminals, each of them counted as a terminal when GH_FORCE_TTY is set.
C15_Original ==
    pc # "Gate"
        => (prompter <=> /\ (env.ForceTTY \/ env.StdinIsTerminal)
                         /\ (env.ForceTTY \/ env.StdoutIsTerminal))

\* C15: the Prompter exists, and is the runner's Prompter, iff the input
\* stream is itself a terminal and the output stream is a terminal or
\* GH_FORCE_TTY is set; the override acts on the output stream only.
C15_PrompterIffTerminals ==
    /\ pc # "Gate"
          => (prompter <=> /\ env.StdinIsTerminal
                           /\ (env.ForceTTY \/ env.StdoutIsTerminal))
    /\ pc = "Run"
          => (r[1].Prompter <=> /\ env.StdinIsTerminal
                                /\ (env.ForceTTY \/ env.StdoutIsTerminal))

C15_Witness ==
    /\ pc = "Run"
    /\ r[1].Prompter
    /\ env.ForceTTY
    /\ ~env.StdoutIsTerminal

-----------------------------------------------------------------------------
(* The list command: ListRunner.Run *)

FmtNoSubIssues == "No sub-issues found for issue #%d\n"
FmtSubIssue == "#%d\t%s\n"

MsgListParentRequired ==
    <<"--parent", "flag", "is", "required", "when", "not", "running", "interactively">>

\* api.Issue values that can be children; neither numbers nor titles are in order
SubIssuePool ==
    {[Number |-> 57, Title |-> <<"b">>],
     [Number |-> 43, Title |-> <<"c">>],
     [Number |-> 44, Title |-> <<"a">>]}

\* results of a successful ListSubIssues, in the order of the API
SubIssueLists == {s \in SeqsUpTo(SubIssuePool, MaxSubIssues) : IsInjective(s)}

InitList ==
    /\ pc = "ListParent"
    /\ opts \in [Parent : {0, 7, 42}, Repo : {<<>>}]
    /\ r \in [Owner : {"owner"}, Repo : {"repo"}, Prompter : BOOLEAN]
    /\ parent = 0
    /\ subIssues = <<>>
    /\ issues = <<>>
    /\ body = <<>>
    /\ result = <<>>
    /\ linkErr = <<>>
    /\ projects = <<>>
    /\ selectedProject = <<>>
    /\ nodeID = ""
    /\ calls = <<>>
    /\ out = <<>>
    /\ err = <<>>
    /\ args = <<>>
    /\ parsed = <<>>
    /\ InitMainVars
    /\ InitReposVars
    /\ InitDebugVars

\* variant: the issues for the picker are asked for in pages of 100
ListParentLargePage ==
    /\ pc = "ListParent"
    /\ UNCHANGED debugVars
    /\ UNCHANGED <<opts, r, subIssues, body, result, linkErr, projects, selectedProject,
                   nodeID, out, args, parsed, mainVars, reposVars>>
    /\ parent' = opts.Parent
    /\ IF ~NeedParentSelection(opts)
       THEN /\ pc' = "ListSubIssues"
            /\ UNCHANGED <<issues, calls, err>>
       ELSE IF ~r.Prompter
       THEN /\ Return(<<NewError(MsgListParentRequired)>>)
            /\ UNCHANGED <<issues, calls>>
       ELSE LET call == Call("ListIssues",
                   [Owner |-> r.Owner, Repo |-> r.Repo, State |-> "open", PerPage |-> 100])
            IN \/ \E e \in ClientErrors("list issues") :
                    /\ calls' = Append(calls, Outcome(call, FALSE))
                    /\ Return(<<e>>)
                    /\ UNCHANGED issues
               \/ \E l \in IssueLists :
                    /\ calls' = Append(calls, Outcome(call, TRUE))
                    /\ issues' = l
                    /\ pc' = "ListSelectParent"
                    /\ UNCHANGED err

\* ListRunner.Run, `parent := opts.Parent` and "If no parent specified, prompt
\* for selection": up to the ListIssues result
ListParent ==
    /\ pc = "ListParent"
    /\ UNCHANGED debugVars
    /\ UNCHANGED <<opts, r, subIssues, body, result, linkErr, projects, selectedProject,
                   nodeID, out, args, parsed, mainVars, reposVars>>
    /\ parent' = opts.Parent
    /\ IF ~NeedParentSelection(opts)
       THEN /\ pc' = "ListSubIssues"
            /\ UNCHANGED <<issues, calls, err>>
       ELSE IF ~r.Prompter
       THEN /\ Return(<<NewError(MsgListParentRequired)>>)
            /\ UNCHANGED <<issues, calls>>
       ELSE LET call == Call("ListIssues",
                   [Owner |-> r.Owner, Repo |-> r.Repo, State |-> "open", PerPage |-> 30])
            IN \/ \E e \in ClientErrors("list issues") :
                    /\ calls' = Append(calls, Outcome(call, FALSE))
                    /\ Return(<<e>>)
                    /\ UNCHANGED issues
               \/ \E l \in IssueLists :
                    /\ calls' = Append(calls, Outcome(call, TRUE))
                    /\ issues' = l
                    /\ pc' = "ListSelectParent"
                    /\ UNCHANGED err

\* SelectParentIssue, called by ListRunner.Run, and `parent = selected`
ListSelectParent ==
    /\ pc = "ListSelectParent"
    /\ UNCHANGED debugVars
    /\ UNCHANGED <<opts, r, subIssues, issues, body, result, linkErr, projects,
                   selectedProject, nodeID, out, args, parsed, mainVars, reposVars>>
    /\ IF Len(issues) = 0
       THEN /\ Return(<<NewError(MsgNoOpenIssues)>>)
            /\ UNCHANGED <<parent, calls>>
       ELSE /\ \/ \E e \in PromptErrors :
                    /\ calls' = Append(calls, Call("Select",
                           [prompt |-> "Select parent issue",
                            options |-> [i \in 1..Len(issues) |-> IssueOption(issues[i])],
                            ok |-> FALSE, ret |-> 0]))
                    /\ Return(<<e>>)
                    /\ UNCHANGED parent
               \/ \E idx \in 1..Len(issues) :
                    /\ calls' = Append(calls, Call("Select",
                           [prompt |-> "Select parent issue",
                            options |-> [i \in 1..Len(issues) |-> IssueOption(issues[i])],
                            ok |-> TRUE, ret |-> idx]))
                    /\ parent' = issues[idx].Number
                    /\ pc' = "ListSubIssues"
                    /\ UNCHANGED err

\* "List sub-issues": the call of Client.ListSubIssues
ListSubIssues ==
    /\ pc = "ListSubIssues"
    /\ UNCHANGED debugVars
    /\ UNCHANGED <<opts, r, parent, issues, body, result, linkErr, projects,
                   selectedProject, nodeID, out, args, parsed, mainVars, reposVars>>
    /\ calls' = Append(calls, Call("ListSubIssues",
            [Owner |-> r.Owner, Repo |-> r.Repo, ParentIssue |-> parent]))
    /\ \/ \E e \in ClientErrors("list sub-issues") :
            /\ Return(<<e>>)
            /\ UNCHANGED subIssues
       \/ \E l \in SubIssueLists :
            /\ subIssues' = l
            /\ pc' = "WriteSubIssues"
            /\ UNCHANGED err

\* variant: one line per child, also when there is none
SubIssueLinesNoEmptyCase(l, parentNumber) ==
    [i \in 1..Len(l) |-> Line(FmtSubIssue, <<l[i].Number, l[i].Title>>)]

\* what Run writes for the children l of parentNumber
SubIssueLines(l, parentNumber) ==
    IF Len(l) = 0
    THEN <<Line(FmtNoSubIssues, <<parentNumber>>)>>
    ELSE [i \in 1..Len(l) |-> Line(FmtSubIssue, <<l[i].Number, l[i].Title>>)]

\* the rest of ListRunner.Run: the output and `return nil`
WriteSubIssues ==
    /\ pc = "WriteSubIssues"
    /\ UNCHANGED debugVars
    /\ out' = out \o SubIssueLines(subIssues, parent)
    /\ Return(<<>>)
    /\ UNCHANGED <<opts, r, parent, subIssues, issues, body, result, linkErr, projects,
                   selectedProject, nodeID, calls, args, parsed, mainVars, reposVars>>

NextList ==
    \/ ListParent
    \/ ListSelectParent
    \/ ListSubIssues
    \/ WriteSubIssues

SpecList == InitList /\ [][NextList]_vars

-----------------------------------------------------------------------------
(* Properties of the list command *)

-----------------------------------------------------------------------------
(* The edit command: EditRunner.Run *)

FmtAddedToProject == "Added issue #%d to project %q\n"

MsgNoEditOptions ==
    <<"no", "edit", "options", "specified", "(use", "--project", "to", "add", "to", "a",
      "project)">>

MsgEditListProjects == <<"failed", "to", "list", "projects:">>

MsgEditNoProjects ==
    <<"no", "projects", "found", "for", "this", "repository",
      "Create", "a", "project", "at:", "https://github.com/%s/%s/projects">>

MsgEditProjectNameRequired ==
    <<"--project", "requires", "a", "project", "name", "when", "not", "running",
      "interactively", "Available", "projects:", "%v",
      "Example:", "gh", "subissue", "edit", "%d", "--project", "%q">>

MsgEditProjectNotFound ==
    <<"project", "%q", "not", "found", "Available", "projects:", "%v">>

MsgEditGetIssue == <<"failed", "to", "get", "issue:">>

MsgEditAddToProject == <<"failed", "to", "add", "issue", "to", "project:">>

\* `names`: the titles of the listed projects, in order
ProjectNames(ps) == [i \in 1..Len(ps) |-> ps[i].Title]

InitEdit ==
    /\ pc = "EditRun"
    /\ opts \in [IssueNumber : {43}, Repo : {<<>>},
                 Project : {Unset, SetEmpty, SetValue(<<"Roadmap">>), SetValue(<<"Sprint">>)}]
    /\ r \in [Owner : {"owner"}, Repo : {"repo"}, Prompter : BOOLEAN]
    /\ projects = <<>>
    /\ selectedProject = <<>>
    /\ nodeID = ""
    /\ issues = <<>>
    /\ body = <<>>
    /\ result = <<>>
    /\ linkErr = <<>>
    /\ calls = <<>>
    /\ out = <<>>
    /\ err = <<>>
    /\ args = <<>>
    /\ parsed = <<>>
    /\ InitMainVars
    /\ InitListVars
    /\ InitReposVars
    /\ InitDebugVars

\* variant: an unset project option is not noticed
NoEditOptionsNever(o) == FALSE

\* EditRunner.Run, `if !opts.Project.WasSet`
NoEditOptions(o) == ~o.Project.WasSet

\* EditRunner.Run, "Currently only project assignment is supported" and "List projects"
EditListProjects ==
    /\ pc = "EditRun"
    /\ UNCHANGED debugVars
    /\ UNCHANGED <<opts, r, selectedProject, nodeID, issues, body, result, linkErr, out,
                   args, parsed, mainVars, listVars, reposVars>>
    /\ IF NoEditOptions(opts)
       THEN /\ Return(<<NewError(MsgNoEditOptions)>>)
            /\ UNCHANGED <<projects, calls>>
       ELSE /\ calls' = Append(calls, Call("ListProjects", [Owner |-> r.Owner, Repo |-> r.Repo]))
            /\ \/ \E e \in ClientErrors("list projects") :
                    /\ Return(<<WrapError(MsgEditListProjects, <<>>, e)>>)
                    /\ UNCHANGED projects
               \/ \E ps \in ProjectLists :
                    /\ projects' = ps
                    /\ pc' = "EditChooseProject"
                    /\ UNCHANGED err

\* EditRunner.Run, `if opts.Project.Value == ""`: the picker or the lookup by name
EditChooseProject ==
    /\ pc = "EditChooseProject"
    /\ UNCHANGED debugVars
    /\ UNCHANGED <<opts, r, projects, nodeID, issues, body, result, linkErr, calls, out,
                   args, parsed, mainVars, listVars, reposVars>>
    /\ IF opts.Project.Value = <<>>
       THEN IF ~r.Prompter
            THEN /\ UNCHANGED selectedProject
                 /\ IF Len(projects) = 0
                    THEN Return(<<NewErrorf(MsgEditNoProjects, <<r.Owner, r.Repo>>)>>)
                    ELSE Return(<<NewErrorf(MsgEditProjectNameRequired,
                                    <<ProjectNames(projects), opts.IssueNumber,
                                      projects[1].Title>>)>>)
            ELSE IF Len(projects) = 0
            THEN /\ Return(<<NewErrorf(MsgEditNoProjects, <<r.Owner, r.Repo>>)>>)
                 /\ UNCHANGED selectedProject
            ELSE /\ pc' = "EditSelectProject"
                 /\ UNCHANGED <<selectedProject, err>>
       ELSE IF FindProject(projects, opts.Project.Value) = <<>>
            THEN /\ Return(<<NewErrorf(MsgEditProjectNotFound,
                               <<opts.Project.Value, ProjectNames(projects)>>)>>)
                 /\ UNCHANGED selectedProject
            ELSE /\ selectedProject' = FindProject(projects, opts.Project.Value)
                 /\ pc' = "EditGetIssueNodeID"
                 /\ UNCHANGED err

\* variant: an aborted project picker is a warning, as it is in create
EditSelectProjectWarning ==
    /\ pc = "EditSelectProject"
    /\ UNCHANGED debugVars
    /\ UNCHANGED <<opts, r, projects, nodeID, issues, body, result, linkErr,
                   args, parsed, mainVars, listVars, reposVars>>
    /\ IF Len(projects) = 0
       THEN /\ Return(<<NewError(MsgNoProjects)>>)
            /\ UNCHANGED <<calls, selectedProject, out>>
       ELSE /\ \/ \E e \in PromptErrors :
                    /\ calls' = Append(calls, Call("Select",
                           [prompt |-> "Select project",
                            options |-> [i \in 1..Len(projects) |-> ProjectOption(projects[i])],
                            ok |-> FALSE, ret |-> 0]))
                    /\ out' = Append(out, Line(FmtSelectProjectWarning, <<e>>))
                    /\ pc' = "Done"
                    /\ UNCHANGED <<selectedProject, err>>
               \/ \E idx \in 1..Len(projects) :
                    /\ calls' = Append(calls, Call("Select",
                           [prompt |-> "Select project",
                            options |-> [i \in 1..Len(projects) |-> ProjectOption(projects[i])],
                            ok |-> TRUE, ret |-> idx]))
                    /\ selectedProject' = <<projects[idx]>>
                    /\ pc' = "EditGetIssueNodeID"
                    /\ UNCHANGED <<err, out>>

\* SelectProject, called by EditRunner.Run with a non-empty list
EditSelectProject ==
    /\ pc = "EditSelectProject"
    /\ UNCHANGED debugVars
    /\ UNCHANGED <<opts, r, projects, nodeID, issues, body, result, linkErr, out,
                   args, parsed, mainVars, listVars, reposVars>>
    /\ IF Len(projects) = 0
       THEN /\ Return(<<NewError(MsgNoProjects)>>)
            /\ UNCHANGED <<calls, selectedProject>>
       ELSE /\ \/ \E e \in PromptErrors :
                    /\ calls' = Append(calls, Call("Select",
                           [prompt |-> "Select project",
                            options |-> [i \in 1..Len(projects) |-> ProjectOption(projects[i])],
                            ok |-> FALSE, ret |-> 0]))
                    /\ Return(<<e>>)
                    /\ UNCHANGED selectedProject
               \/ \E idx \in 1..Len(projects) :
                    /\ calls' = Append(calls, Call("Select",
                           [prompt |-> "Select project",
                            options |-> [i \in 1..Len(projects) |-> ProjectOption(projects[i])],
                            ok |-> TRUE, ret |-> idx]))
                    /\ selectedProject' = <<projects[idx]>>
                    /\ pc' = "EditGetIssueNodeID"
                    /\ UNCHANGED err

\* EditRunner.Run, "Get issue node ID"
EditGetIssueNodeID ==
    /\ pc = "EditGetIssueNodeID"
    /\ UNCHANGED debugVars
    /\ UNCHANGED <<opts, r, projects, selectedProject, issues, body, result, linkErr, out,
                   args, parsed, mainVars, listVars, reposVars>>
    /\ calls' = Append(calls, Call("GetIssueNodeID",
            [Owner |-> r.Owner, Repo |-> r.Repo, Number |-> opts.IssueNumber]))
    /\ \/ \E e \in ClientErrors("get issue node ID") :
            /\ Return(<<WrapError(MsgEditGetIssue, <<>>, e)>>)
            /\ UNCHANGED nodeID
       \/ \E id \in NodeIDs :
            /\ nodeID' = id
            /\ pc' = "EditAddIssueToProject"
            /\ UNCHANGED err

\* variant: a failed AddIssueToProject is reported as a warning and Run succeeds
EditAddIssueToProjectWarning ==
    /\ pc = "EditAddIssueToProject"
    /\ UNCHANGED debugVars
    /\ UNCHANGED <<opts, r, projects, selectedProject, nodeID, issues, body, result,
                   linkErr, args, parsed, mainVars, listVars, reposVars>>
    /\ calls' = Append(calls, Call("AddIssueToProject",
            [ProjectID |-> selectedProject[1].ID, IssueNodeID |-> nodeID]))
    /\ \/ \E e \in ClientErrors("add issue to project") :
            /\ out' = Append(out, Line(FmtAddProjectWarning, <<e>>))
            /\ Return(<<>>)
       \/ /\ out' = Append(out, Line(FmtAddedToProject,
                                     <<opts.IssueNumber, selectedProject[1].Title>>))
          /\ Return(<<>>)

\* EditRunner.Run, "Add to project" and the line that reports it
EditAddIssueToProject ==
    /\ pc = "EditAddIssueToProject"
    /\ UNCHANGED debugVars
    /\ UNCHANGED <<opts, r, projects, selectedProject, nodeID, issues, body, result,
                   linkErr, args, parsed, mainVars, listVars, reposVars>>
    /\ calls' = Append(calls, Call("AddIssueToProject",
            [ProjectID |-> selectedProject[1].ID, IssueNodeID |-> nodeID]))
    /\ \/ \E e \in ClientErrors("add issue to project") :
            /\ Return(<<WrapError(MsgEditAddToProject, <<>>, e)>>)
            /\ UNCHANGED out
       \/ /\ out' = Append(out, Line(FmtAddedToProject,
                                     <<opts.IssueNumber, selectedProject[1].Title>>))
          /\ Return(<<>>)

NextEdit ==
    \/ EditListProjects
    \/ EditChooseProject
    \/ EditSelectProject
    \/ EditGetIssueNodeID
    \/ EditAddIssueToProject

SpecEdit == InitEdit /\ [][NextEdit]_vars

-----------------------------------------------------------------------------
(* Properties of the edit command *)

\* C17: with the project option unset EditRunner.Run ends at once with an
\* error, without calling ListProjects, GetIssueNodeID or AddIssueToProject
\* and without writing anything; it never succeeds as a no-op.
C17_UnsetProjectFails ==
    (pc # "EditRun" /\ ~opts.Project.WasSet)
        => /\ pc = "Done"
           /\ err # <<>>
           /\ Contains(ErrorText(err[1]), <<"no", "edit", "options", "specified">>)
           /\ CallOps \cap ProjectOps = {}
           /\ out = <<>>

C17_Witness ==
    /\ pc = "Done"
    /\ ~opts.Project.WasSet
    /\ err # <<>>
    /\ calls = <<>>

\* the failures of edit that the claim does not list: ListProjects itself and
\* an aborted picker
EditListFailed == err # <<>> /\ err[1].msg = MsgEditListProjects

EditPromptFailed == err # <<>> /\ err[1].kind = "plain" /\ err[1].msg = <<"interrupt">>

\* C18 as stated: with the project option set, a project that is not found,
\* an empty project list, an empty option without a Prompter, a failed
\* GetIssueNodeID and a failed AddIssueToProject are warnings and Run succeeds.
C18_Original ==
    (pc = "Done" /\ opts.Project.WasSet /\ ~EditListFailed /\ ~EditPromptFailed)
        => err = <<>>

\* C18: in edit, with the project option set, every failure of a project
\* sub-step is fatal: Run returns an error and writes nothing. Run succeeds
\* only after AddIssueToProject succeeded for the selected project, and its
\* whole output is then the line "Added issue #N to project <title>".
C18_EditFailuresAreFatal ==
    (pc = "Done" /\ opts.Project.WasSet)
        => /\ err # <<>> => out = <<>>
           /\ err = <<>> =>
                 /\ Called("AddIssueToProject")
                 /\ selectedProject # <<>>
                 /\ Len(out) = 1
                 /\ out[1].fmt = FmtAddedToProject
                 /\ out[1].args = <<opts.IssueNumber, selectedProject[1].Title>>
           /\ (Called("ListProjects") /\ ~Called("GetIssueNodeID")) => err # <<>>
           /\ (Called("GetIssueNodeID") /\ ~Called("AddIssueToProject")) => err # <<>>
           /\ (opts.Project.Value = <<>> /\ ~r.Prompter) => err # <<>>
           /\ (opts.Project.Value # <<>> /\ FindProject(projects, opts.Project.Value) = <<>>)
                 => err # <<>>
           /\ \A i \in 1..Len(out) : out[i].fmt # FmtAddProjectWarning

C18_Witness ==
    /\ pc = "Done"
    /\ opts.Project.WasSet
    /\ Called("AddIssueToProject")
    /\ err # <<>>
    /\ out = <<>>

-----------------------------------------------------------------------------
(* The repos command: ReposRunner.Run *)

FmtRepoRow == "%-19s %s\n"
FmtNoMatchingRepos == "No matching repositories found for %s\n"
FmtNoRepos == "No repositories found for %s\n"

\* the header cells
HeaderCells == <<<<"REPOSITORY">>, "SUB-ISSUES">>

\* `perPage := 100`
PerPageCap == 100

\* values of opts.Limit, an int flag: a negative one, small ones, one that
\* needs a second page and one that needs a third
Limits == (-1..MaxLimit) \cup {PerPageCap + 1, 2 * PerPageCap + 1}

\* has_issues and archived of one repository of a page
RepoKinds == [HasIssues : BOOLEAN, Archived : BOOLEAN]

\* a full page whose repositories go through the four kinds in turn
KindAt(i) == [HasIssues |-> i % 2 = 0, Archived |-> (i \div 2) % 2 = 1]

\* pages ListRepositories can return when perPage was asked for: the page of
\* exactly perPage, and shorter and longer ones whatever was asked (after a
\* request for PerPageCap only the empty page and the pages of one repository)
Pages(perPage) ==
    SeqsUpTo(RepoKinds, IF perPage < PerPageCap THEN MaxPage ELSE 1)
        \cup {[i \in 1..perPage |-> KindAt(i)]}

\* api.Repository number n of the owner, of kind k
Repository(n, k) ==
    [FullName |-> <<"org/repo", ToString(n)>>, HasIssues |-> k.HasIssues,
     Archived |-> k.Archived]

\* the repositories of a page that follows `before` earlier repositories
PageRepos(before, kinds) == [i \in 1..Len(kinds) |-> Repository(before + i, kinds[i])]

\* repoStatus
repoStatus(repo) ==
    IF repo.Archived THEN "disabled (archived)"
    ELSE IF ~repo.HasIssues THEN "disabled (issues off)"
    ELSE "enabled"

\* variant: an archived repository with issues counts as enabled
IsEnabledIgnoringArchived(repo) == repo.HasIssues

\* `enabled := repo.HasIssues && !repo.Archived`
IsEnabled(repo) == repo.HasIssues /\ ~repo.Archived

\* the two `continue` tests of the filter loop
PassesFilter(repo, o) ==
    /\ ~(o.Enabled /\ ~IsEnabled(repo))
    /\ ~(o.Disabled /\ IsEnabled(repo))

\* "Filter repos based on flags"
FilterRepos(repos, o) == SelectSeq(repos, LAMBDA repo : PassesFilter(repo, o))

\* variant: the list is left as fetched
TruncateNever(repos, limit) == repos

\* "Truncate to limit"
Truncate(repos, limit) ==
    IF Len(repos) > limit THEN SubSeq(repos, 1, limit) ELSE repos

\* `allRepos[:opts.Limit]` is evaluated, with a negative upper index: the slice
\* expression fails at run time
TruncatePanics(repos, limit) == Len(repos) > limit /\ limit < 0

\* variant: the row count of a request is the limit itself
PerPageUncapped(o) == o.Limit

\* `perPage := 100; if opts.Limit < perPage { perPage = opts.Limit }`
PerPage(o) == IF o.Limit < PerPageCap THEN o.Limit ELSE PerPageCap

InitRepos ==
    /\ pc = "ReposOwner"
    /\ opts \in [Owner : {"", "org"}, Limit : Limits, Enabled : BOOLEAN,
                 Disabled : BOOLEAN, NoHeader : BOOLEAN]
    /\ r = <<>>
    /\ owner = <<>>
    /\ allRepos = <<>>
    /\ page = 0
    /\ InitDebugVars
    /\ env = <<>>
    /\ prompter = FALSE
    /\ repoName = <<>>
    /\ host = ""
    /\ issues = <<>>
    /\ body = <<>>
    /\ result = <<>>
    /\ linkErr = <<>>
    /\ projects = <<>>
    /\ selectedProject = <<>>
    /\ nodeID = ""
    /\ calls = <<>>
    /\ out = <<>>
    /\ err = <<>>
    /\ args = <<>>
    /\ parsed = <<>>
    /\ InitListVars

\* ReposRunner.Run, "If no owner specified, use authenticated user", and the
\* start of the fetch loop
ReposOwner ==
    /\ pc = "ReposOwner"
    /\ UNCHANGED debugVars
    /\ UNCHANGED <<opts, r, issues, body, result, linkErr, projects, selectedProject,
                   nodeID, out, args, parsed, env, prompter, repoName, host, listVars>>
    /\ IF opts.Owner = ""
       THEN /\ \/ \E e \in ClientErrors("get authenticated user") :
                    /\ calls' = Append(calls, Outcome(Call("GetAuthenticatedUser", <<>>), FALSE))
                    /\ Return(<<WrapError(<<"could", "not", "determine", "user:", "%w",
                                            "Specify", "an", "owner:",
                                            "gh", "subissue", "repos", "<owner>">>, <<>>, e)>>)
                    /\ UNCHANGED <<owner, allRepos, page>>
               \/ /\ calls' = Append(calls, Outcome(Call("GetAuthenticatedUser", <<>>), TRUE))
                  /\ owner' = "testuser"
                  /\ allRepos' = <<>>
                  /\ page' = 1
                  /\ pc' = "ReposFetch"
                  /\ UNCHANGED err
       ELSE /\ owner' = opts.Owner
            /\ allRepos' = <<>>
            /\ page' = 1
            /\ pc' = "ReposFetch"
            /\ UNCHANGED <<calls, err>>

\* variant: a page shorter than requested does not end the loop
ReposFetchNoShortStop ==
    /\ pc = "ReposFetch"
    /\ UNCHANGED debugVars
    /\ UNCHANGED <<opts, r, issues, body, result, linkErr, projects, selectedProject,
                   nodeID, out, args, parsed, mainVars, listVars>>
    /\ IF ~(Len(allRepos) < opts.Limit)
       THEN /\ pc' = "ReposWrite"
            /\ UNCHANGED <<allRepos, page, calls, err>>
       ELSE \/ \E e \in ClientErrors("list repositories") :
                 /\ calls' = Append(calls, Outcome(Call("ListRepositories",
                        [Owner |-> owner, PerPage |-> PerPage(opts), Page |-> page,
                         returned |-> 0, kinds |-> <<>>]), FALSE))
                 /\ Return(<<e>>)
                 /\ UNCHANGED <<allRepos, page>>
            \/ \E kinds \in Pages(PerPage(opts)) :
                 /\ calls' = Append(calls, Outcome(Call("ListRepositories",
                        [Owner |-> owner, PerPage |-> PerPage(opts), Page |-> page,
                         returned |-> Len(kinds), kinds |-> kinds]), TRUE))
                 /\ UNCHANGED err
                 /\ IF Len(kinds) = 0
                    THEN /\ pc' = "ReposWrite"
                         /\ UNCHANGED <<allRepos, page>>
                    ELSE /\ allRepos' = allRepos \o PageRepos(Len(allRepos), kinds)
                         /\ page' = page + 1
                         /\ pc' = "ReposFetch"

\* one turn of `for len(allRepos) < opts.Limit`
ReposFetch ==
    /\ pc = "ReposFetch"
    /\ UNCHANGED debugVars
    /\ UNCHANGED <<opts, r, issues, body, result, linkErr, projects, selectedProject,
                   nodeID, out, args, parsed, mainVars, listVars>>
    /\ IF ~(Len(allRepos) < opts.Limit)
       THEN /\ pc' = "ReposWrite"
            /\ UNCHANGED <<allRepos, page, calls, err>>
       ELSE \/ \E e \in ClientErrors("list repositories") :
                 /\ calls' = Append(calls, Outcome(Call("ListRepositories",
                        [Owner |-> owner, PerPage |-> PerPage(opts), Page |-> page,
                         returned |-> 0, kinds |-> <<>>]), FALSE))
                 /\ Return(<<e>>)
                 /\ UNCHANGED <<allRepos, page>>
            \/ \E kinds \in Pages(PerPage(opts)) :
                 /\ calls' = Append(calls, Outcome(Call("ListRepositories",
                        [Owner |-> owner, PerPage |-> PerPage(opts), Page |-> page,
                         returned |-> Len(kinds), kinds |-> kinds]), TRUE))
                 /\ UNCHANGED err
                 /\ IF Len(kinds) = 0
                    THEN /\ pc' = "ReposWrite"
                         /\ UNCHANGED <<allRepos, page>>
                    ELSE /\ allRepos' = allRepos \o PageRepos(Len(allRepos), kinds)
                         /\ page' = page + 1
                         /\ pc' = IF Len(kinds) < PerPage(opts) THEN "ReposWrite"
                                  ELSE "ReposFetch"

\* the lines for the repositories that passed the filter
RepoLines(filtered, o) ==
    IF Len(filtered) = 0
    THEN IF o.Enabled \/ o.Disabled
         THEN <<Line(FmtNoMatchingRepos, <<owner>>)>>
         ELSE <<Line(FmtNoRepos, <<owner>>)>>
    ELSE (IF ~o.NoHeader THEN <<Line(FmtRepoRow, HeaderCells)>> ELSE <<>>)
         \o [i \in 1..Len(filtered) |->
                Line(FmtRepoRow, <<filtered[i].FullName, repoStatus(filtered[i])>>)]

\* variant: the filter is applied to everything fetched and the limit to
\* what passed
ReposWriteFilterFirst ==
    /\ pc = "ReposWrite"
    /\ UNCHANGED debugVars
    /\ IF TruncatePanics(allRepos, opts.Limit)
       THEN /\ pc' = "Panic"
            /\ UNCHANGED <<allRepos, out, err>>
       ELSE /\ allRepos' = allRepos
            /\ out' = out \o RepoLines(Truncate(FilterRepos(allRepos, opts), opts.Limit), opts)
            /\ Return(<<>>)
    /\ UNCHANGED <<opts, r, issues, body, result, linkErr, projects, selectedProject,
                   nodeID, calls, page, args, parsed, mainVars, listVars>>

\* the rest of ReposRunner.Run: "Truncate to limit", "Filter repos based on
\* flags", the header and the rows
ReposWrite ==
    /\ pc = "ReposWrite"
    /\ UNCHANGED debugVars
    /\ IF TruncatePanics(allRepos, opts.Limit)
       THEN /\ pc' = "Panic"
            /\ UNCHANGED <<allRepos, out, err>>
       ELSE /\ allRepos' = Truncate(allRepos, opts.Limit)
            /\ out' = out \o RepoLines(FilterRepos(allRepos', opts), opts)
            /\ Return(<<>>)
    /\ UNCHANGED <<opts, r, issues, body, result, linkErr, projects, selectedProject,
                   nodeID, calls, page, args, parsed, mainVars, listVars>>

NextRepos ==
    \/ ReposOwner
    \/ ReposFetch
    \/ ReposWrite

SpecRepos == InitRepos /\ [][NextRepos]_vars

-----------------------------------------------------------------------------
(* Properties of the repos command *)

\* the output lines that are repository rows
RepoRows ==
    {i \in 1..Len(out) : out[i].fmt = FmtRepoRow /\ out[i].args[1] # HeaderCells[1]}

\* the header lines of the output
HeaderRows ==
    {i \in 1..Len(out) : out[i].fmt = FmtRepoRow /\ out[i].args[1] = HeaderCells[1]}

\* the number of repositories the API returned over all pages
Returned(i) == IF calls[i].op = "ListRepositories" THEN calls[i].args.returned ELSE 0

RECURSIVE ReturnedUpTo(_)
ReturnedUpTo(n) == IF n = 0 THEN 0 ELSE ReturnedUpTo(n - 1) + Returned(n)

\* C19: for a limit L >= 1 ReposRunner.Run never prints more than L
\* repository rows, whatever the pages of ListRepositories contained (also
\* pages longer than asked for); without filter and with at least L
\* repositories returned it prints exactly L rows, after one header row
\* unless --no-header is given.
C19_RowsWithinLimit ==
    opts.Limit >= 1
        => /\ Cardinality(RepoRows) <= opts.Limit
           /\ Cardinality(HeaderRows) <= 1
           /\ (/\ pc = "Done"
               /\ err = <<>>
               /\ ~opts.Enabled
               /\ ~opts.Disabled
               /\ ReturnedUpTo(Len(calls)) >= opts.Limit)
                 => /\ Cardinality(RepoRows) = opts.Limit
                    /\ Cardinality(HeaderRows) = (IF opts.NoHeader THEN 0 ELSE 1)
                    /\ Len(out) = Cardinality(RepoRows) + Cardinality(HeaderRows)

C19_Witness ==
    /\ pc = "Done"
    /\ err = <<>>
    /\ opts.Limit = 3
    /\ ReturnedUpTo(Len(calls)) > 3
    /\ Cardinality(RepoRows) = 3
    /\ Len(out) = 4

\* the repository of allRepos shown by output line i
RowOf(i) == CHOOSE k \in 1..Len(allRepos) : allRepos[k].FullName = out[i].args[1]

\* C20: a repository (within the limit) has a row iff (--enabled is unset or
\* it has issues and is not archived) and (--disabled is unset or it has no
\* issues or is archived); with both flags no repository has a row, Run
\* succeeds and writes "No matching repositories found".
C20_FilterByFlags ==
    (pc = "Done" /\ err = <<>>)
        => /\ \A k \in 1..Len(allRepos) :
                 (\E i \in RepoRows : out[i].args[1] = allRepos[k].FullName)
                    <=> /\ (~opts.Enabled \/ (allRepos[k].HasIssues /\ ~allRepos[k].Archived))
                        /\ (~opts.Disabled \/ ~(allRepos[k].HasIssues /\ ~allRepos[k].Archived))
           /\ \A i \in RepoRows : \E k \in 1..Len(allRepos) : allRepos[k].FullName = out[i].args[1]
           /\ \A i \in RepoRows : (i + 1) \in RepoRows => RowOf(i) < RowOf(i + 1)
           /\ (opts.Enabled /\ opts.Disabled)
                 => /\ RepoRows = {}
                    /\ Len(out) = 1
                    /\ out[1].fmt = FmtNoMatchingRepos

C20_Witness ==
    /\ pc = "Done"
    /\ err = <<>>
    /\ opts.Enabled
    /\ opts.Disabled
    /\ Len(allRepos) = 2
    /\ allRepos[1].HasIssues
    /\ ~allRepos[1].Archived
    /\ ~allRepos[2].HasIssues
    /\ Len(out) = 1
    /\ out[1].fmt = FmtNoMatchingRepos

-----------------------------------------------------------------------------
(* API errors: newAPIError, APIError.Error and the classification helpers.   *)
(* Texts are sequences of words.                                             *)

\* status codes of failed responses
StatusCodes == {400, 401, 403, 404, 409, 410, 422, 429, 500, 503}

\* messages sent by the server
ServerMessages == {<<>>, <<"Not", "Found">>, <<"Validation", "Failed">>}

\* operation names given by the Client methods
Operations ==
    {<<"create", "issue">>, <<"link", "sub-issue">>, <<"list", "issues">>,
     <<"list", "repositories">>}

\* variant: no hint for a rate-limited request
HintForWithoutRateLimit(statusCode) ==
    CASE statusCode = 401 -> <<"Run", "'gh", "auth", "login'", "to", "authenticate">>
      [] statusCode = 403 -> <<"Check", "that", "you", "have", "write", "access", "to",
                               "this", "repository">>
      [] statusCode = 404 -> <<"Verify", "the", "repository", "exists", "and", "you",
                               "have", "access", "to", "it">>
      [] statusCode = 410 -> <<"Issues", "are", "disabled", "for", "this", "repository.",
                               "Enable", "them", "in", "repository", "Settings", ">",
                               "Features">>
      [] statusCode = 422 -> <<"Check", "that", "all", "required", "fields", "are",
                               "provided", "and", "valid">>
      [] OTHER -> <<>>

\* newAPIError, `switch statusCode`
HintFor(statusCode) ==
    CASE statusCode = 401 -> <<"Run", "'gh", "auth", "login'", "to", "authenticate">>
      [] statusCode = 403 -> <<"Check", "that", "you", "have", "write", "access", "to",
                               "this", "repository">>
      [] statusCode = 404 -> <<"Verify", "the", "repository", "exists", "and", "you",
                               "have", "access", "to", "it">>
      [] statusCode = 410 -> <<"Issues", "are", "disabled", "for", "this", "repository.",
                               "Enable", "them", "in", "repository", "Settings", ">",
                               "Features">>
      [] statusCode = 422 -> <<"Check", "that", "all", "required", "fields", "are",
                               "provided", "and", "valid">>
      [] statusCode = 429 -> <<"Rate", "limited", "by", "GitHub.", "Wait", "a", "moment",
                               "and", "try", "again">>
      [] OTHER -> <<>>

\* newAPIError: the *APIError value
newAPIError(statusCode, message, operation) ==
    [kind |-> "APIError", StatusCode |-> statusCode, Message |-> message,
     Operation |-> operation, Hint |-> HintFor(statusCode)]

\* (*APIError).Error()
APIErrorString(e) ==
    IF e.Hint # <<>>
    THEN e.Operation \o <<":">> \o e.Message \o <<"Hint:">> \o e.Hint
    ELSE e.Operation \o <<":">> \o e.Message

\* Error() of any error value of the model
ErrorString(e) == IF e.kind = "APIError" THEN APIErrorString(e) ELSE ErrorText(e)

\* `apiErr, ok := err.(*APIError)`: err is <<>> (nil) or <<e>>
IsAPIError(e) == e # <<>> /\ e[1].kind = "APIError"

IsNotFound(e) == IsAPIError(e) /\ e[1].StatusCode = 404

IsDisabled(e) == IsAPIError(e) /\ e[1].StatusCode = 410

\* variant: a forbidden request is not an authentication failure
IsAuthErrorUnauthorizedOnly(e) == IsAPIError(e) /\ e[1].StatusCode = 401

IsAuthError(e) == IsAPIError(e) /\ (e[1].StatusCode = 401 \/ e[1].StatusCode = 403)

IsRateLimited(e) == IsAPIError(e) /\ e[1].StatusCode = 429

\* error values that are not *APIError: plain ones and ones that wrap a
\* classified failure
OtherErrors ==
    {NewError(<<"interrupt">>),
     WrapError(<<"failed", "to", "send", "request:">>, <<>>, NewError(<<"transport">>)),
     WrapError(<<"failed", "to", "list", "projects:">>, <<>>, APIError(404, "list projects")),
     WrapError(<<"parent", "issue", "#%d", "not", "found:">>, <<42>>, APIError(404, "get issue")),
     WrapError(<<"parent", "issue", "#%d", "not", "found:">>, <<42>>, APIError(401, "get issue"))}

InitErrors ==
    /\ \/ /\ pc = "newAPIError"
          /\ args \in [statusCode : StatusCodes, message : ServerMessages,
                       operation : Operations]
          /\ err = <<>>
       \/ /\ pc = "Error"
          /\ args = <<>>
          /\ err \in {<<e>> : e \in OtherErrors}
       \/ /\ pc = "Classify"
          /\ args = <<>>
          /\ err = <<>>
    /\ parsed = <<>>
    /\ out = <<>>
    /\ opts = <<>>
    /\ r = <<>>
    /\ issues = <<>>
    /\ body = <<>>
    /\ result = <<>>
    /\ linkErr = <<>>
    /\ projects = <<>>
    /\ selectedProject = <<>>
    /\ nodeID = ""
    /\ calls = <<>>
    /\ InitMainVars
    /\ InitListVars
    /\ InitReposVars
    /\ InitDebugVars

\* a Client method builds the error of a failed response
NewAPIErrorStep ==
    /\ pc = "newAPIError"
    /\ UNCHANGED debugVars
    /\ err' = <<newAPIError(args.statusCode, args.message, args.operation)>>
    /\ pc' = "Error"
    /\ UNCHANGED <<opts, r, issues, body, result, linkErr, projects, selectedProject,
                   nodeID, calls, out, args, parsed, mainVars, listVars, reposVars>>

\* main: fmt.Fprintf(os.Stderr, "error: %v\n", err)
ErrorStep ==
    /\ pc = "Error"
    /\ UNCHANGED debugVars
    /\ out' = Append(out, Line("error: %v\n", <<ErrorString(err[1])>>))
    /\ pc' = "Classify"
    /\ UNCHANGED <<opts, r, issues, body, result, linkErr, projects, selectedProject,
                   nodeID, calls, err, args, parsed, mainVars, listVars, reposVars>>

\* the four helpers applied to the error
ClassifyStep ==
    /\ pc = "Classify"
    /\ UNCHANGED debugVars
    /\ parsed' = <<[IsNotFound |-> IsNotFound(err), IsDisabled |-> IsDisabled(err),
                    IsAuthError |-> IsAuthError(err), IsRateLimited |-> IsRateLimited(err)]>>
    /\ pc' = "Classified"
    /\ UNCHANGED <<opts, r, issues, body, result, linkErr, projects, selectedProject,
                   nodeID, calls, out, err, args, mainVars, listVars, reposVars>>

NextErrors ==
    \/ NewAPIErrorStep
    \/ ErrorStep
    \/ ClassifyStep

SpecErrors == InitErrors /\ [][NextErrors]_vars

-----------------------------------------------------------------------------
(* Properties of the API errors *)

\* the error under classification is an *APIError built by newAPIError
BuiltAPIError == err # <<>> /\ err[1].kind = "APIError"

C22_Classification ==
    parsed # <<>>
        => IF BuiltAPIError
           THEN /\ parsed[1].IsNotFound <=> args.statusCode = 404
                /\ parsed[1].IsDisabled <=> args.statusCode = 410
                /\ parsed[1].IsAuthError <=> args.statusCode \in {401, 403}
                /\ parsed[1].IsRateLimited <=> args.statusCode = 429
           ELSE /\ ~parsed[1].IsNotFound
                /\ ~parsed[1].IsDisabled
                /\ ~parsed[1].IsAuthError
                /\ ~parsed[1].IsRateLimited

C22_Witness ==
    /\ parsed # <<>>
    /\ BuiltAPIError
    /\ args.statusCode = 403
    /\ parsed[1].IsAuthError
    /\ ~parsed[1].IsNotFound

-----------------------------------------------------------------------------
(* Properties of error propagation *)

\* the prefix the Client puts on a failure of the HTTP round trip
MsgSendRequest == <<"failed", "to", "send", "request:">>

\* the error is a transport failure as the Client returns it
IsTransportError(e) == e.kind = "wrap" /\ e.msg = MsgSendRequest

\* the error comes from a Client call: a classified failure or a transport
\* failure, possibly wrapped by the orchestrator
RECURSIVE FromClient(_)
FromClient(e) ==
    \/ e.kind = "APIError"
    \/ IsTransportError(e)
    \/ (e.cause # <<>> /\ FromClient(e.cause[1]))

\* the error names the operation: it is an APIError with its Operation, or
\* the orchestrator wrapped it with a prefix of its own
NamesOperation(e) ==
    \/ e.kind = "APIError" /\ e.op # ""
    \/ e.kind = "wrap" /\ ~IsTransportError(e)

\* C23: every API or transport error that the create command returns names
\* the operation that failed, as the APIError's Operation or as a wrapping
\* prefix; none reaches the top as the bare lower-level error.
C23_Claim ==
    (pc = "Done" /\ err # <<>> /\ FromClient(err[1])) => NamesOperation(err[1])

-----------------------------------------------------------------------------
(* The commands together: one invocation of create, list or edit, or one *)
(* repository resolution of main                                         *)

InitCommands ==
    \/ Init
    \/ InitMain
    \/ InitList
    \/ InitEdit

NextCommands ==
    \/ ResolveParent
    \/ SelectParentIssue
    \/ ResolveTitle
    \/ ReadBodyStep
    \/ ValidateParent
    \/ CreateIssue
    \/ LinkSubIssue
    \/ addToProject
    \/ SelectProject
    \/ GetIssueNodeID
    \/ AddIssueToProject
    \/ Report
    \/ InteractionGate
    \/ ResolveRepository
    \/ PromptRepository
    \/ StartRunner
    \/ ListParent
    \/ ListSelectParent
    \/ ListSubIssues
    \/ WriteSubIssues
    \/ EditListProjects
    \/ EditChooseProject
    \/ EditSelectProject
    \/ EditGetIssueNodeID
    \/ EditAddIssueToProject

SpecCommands == InitCommands /\ [][NextCommands]_vars

-----------------------------------------------------------------------------
(* Properties of the interactive failures *)

\* call i is a Select or an Input that returned an error
PromptFailedAt(i) ==
    /\ calls[i].op \in {"Select", "Input"}
    /\ ~calls[i].args.ok

\* call i is the project picker of create: the one Select of a project that
\* comes after the issue was created
CreateProjectPickerAt(i) ==
    /\ calls[i].op = "Select"
    /\ calls[i].args.prompt = "Select project"
    /\ Called("CreateIssue")

\* the error is the prompt's own error, or wraps it
RECURSIVE FromPrompt(_)
FromPrompt(e) ==
    \/ e \in PromptErrors
    \/ (e.cause # <<>> /\ FromPrompt(e.cause[1]))

-----------------------------------------------------------------------------
(* Debug logging: package debug, and main's use of it.                     *)
(* Two runs of the same program on the same inputs are carried side by     *)
(* side; they differ in the value of GH_DEBUG only.  In this part pc, env, *)
(* instance, stderr, out and result hold one value per run; calls is the   *)
(* trace of what the program did, which is the same input for both runs.   *)
(* A string is its sequence of words, so it holds a blank exactly when it  *)
(* has more than one word.                                                 *)

Runs == {1, 2}

MaxDebugCalls == 2
MaxEvents == 2

\* values of the GH_DEBUG variable: unset or empty, "1", "api"
DebugValues == {<<>>, <<"1">>, <<"api">>}

\* time.Now() of a log line: the clock advances with every step of the program
Now == Len(calls)

\* the values handed to Log as fields
StringValue(s) == [type |-> "string", val |-> s]
ErrorValue(e) == [type |-> "error", val |-> e]
OtherValue(v) == [type |-> "other", val |-> v]

\* variant: the logger writes to standard output
LoggerOutStdout == "stdout"

\* Init, `out: os.Stderr`
LoggerOut == "stderr"

\* Init: enabled when GH_DEBUG is not empty
DebugInit(val) == <<[out |-> LoggerOut, enabled |-> val # <<>>]>>

\* formatValue: strings and errors are quoted (%q) when they hold a blank,
\* any other value is formatted with %v
formatValue(v) ==
    CASE v.type = "string" -> [quoted |-> Len(v.val) > 1, text |-> v.val]
      [] v.type = "error" -> [quoted |-> Len(ErrorText(v.val)) > 1,
                              text |-> ErrorText(v.val)]
      [] OTHER -> [quoted |-> FALSE, text |-> <<ToString(v.val)>>]

\* Log, the loop over the fields: pairs (0,1), (2,3), ..., a pair whose key
\* is not a string is skipped, a trailing key without value is ignored
LogFields(fields) ==
    LET pairs == [i \in 1..(Len(fields) \div 2) |->
                     [key |-> fields[2 * i - 1], value |-> formatValue(fields[2 * i])]]
    IN  SelectSeq(pairs, LAMBDA pair : pair.key.type = "string")

\* what a call wrote, and whether it panicked
NoWrite == [panic |-> FALSE, stream |-> "", lines |-> <<>>]

\* Log: nothing when there is no logger or it is disabled, else one line
\* "ts=... level=debug fn=... key=value ..." on the logger's stream
Log(inst, ts, fn, fields) ==
    IF inst = <<>> \/ ~inst[1].enabled
    THEN NoWrite
    ELSE [panic |-> FALSE, stream |-> inst[1].out,
          lines |-> <<[ts |-> ts, level |-> "debug", fn |-> fn,
                       fields |-> LogFields(fields)]>>]

\* Error: nothing when there is no logger or it is disabled, else Log with
\* error=<err.Error()> in front; err.Error() on a nil error panics
Error(inst, ts, fn, e, fields) ==
    IF inst = <<>> \/ ~inst[1].enabled
    THEN NoWrite
    ELSE IF e = <<>>
    THEN [panic |-> TRUE, stream |-> "", lines |-> <<>>]
    ELSE Log(inst, ts, fn,
             <<StringValue(<<"error">>), StringValue(ErrorText(e[1]))>> \o fields)

\* calls of Log in the program: `debug.Log("run", "subcommand_args", args)`,
\* `debug.Log("Runner.Run", "action", "need_parent_selection")`
LogSites ==
    {[fn |-> "run", fields |-> <<StringValue(<<"subcommand_args">>),
                                 OtherValue(<<"create", "-p", "42">>)>>],
     [fn |-> "Runner.Run", fields |-> <<StringValue(<<"action">>),
                                        StringValue(<<"need_parent_selection">>)>>]}

\* calls of Error in the program, each under `if err != nil`:
\* `debug.Error("Runner.Run", err, "stage", "list_issues")`,
\* `debug.Error("SelectParentIssue", err)`
ErrorSites ==
    {[fn |-> "Runner.Run", err |-> <<APIError(404, "list issues")>>,
      fields |-> <<StringValue(<<"stage">>), StringValue(<<"list_issues">>)>>],
     [fn |-> "SelectParentIssue", err |-> <<NewError(MsgNoOpenIssues)>>,
      fields |-> <<>>]}

\* what the program does between two debug calls that can be seen from
\* outside: a call on the Client or the Prompter, a line on standard output
Events == {"call", "stdout"}

DebugOps == {"Log", "Error"}

InitDebug ==
    /\ pc = [run \in Runs |-> "main"]
    /\ env \in [Runs -> DebugValues]
    /\ instance = [run \in Runs |-> <<>>]
    /\ stderr = [run \in Runs |-> <<>>]
    /\ out = [run \in Runs |-> <<>>]
    /\ result = [run \in Runs |-> <<>>]
    /\ calls = <<>>
    /\ err = <<>>
    /\ args = <<>>
    /\ parsed = <<>>
    /\ opts = <<>>
    /\ r = <<>>
    /\ issues = <<>>
    /\ body = <<>>
    /\ linkErr = <<>>
    /\ projects = <<>>
    /\ selectedProject = <<>>
    /\ nodeID = ""
    /\ prompter = FALSE
    /\ owner = <<>>
    /\ repoName = <<>>
    /\ host = ""
    /\ InitListVars
    /\ InitReposVars

\* the effect of one debug call on each run that is still running
DebugWrite(w(_)) ==
    /\ stderr' = [run \in Runs |->
                     IF pc[run] = "run" /\ w(run).stream = "stderr"
                     THEN stderr[run] \o w(run).lines ELSE stderr[run]]
    /\ out' = [run \in Runs |->
                  IF pc[run] = "run" /\ w(run).stream = "stdout"
                  THEN out[run] \o w(run).lines ELSE out[run]]
    /\ pc' = [run \in Runs |->
                 IF pc[run] = "run" /\ w(run).panic THEN "panic" ELSE pc[run]]

DebugCalls == {i \in 1..Len(calls) : calls[i].op \in DebugOps}

\* main: `debug.Init()`
DebugInitStep ==
    /\ \E run \in Runs : pc[run] = "main"
    /\ instance' = [run \in Runs |-> DebugInit(env[run])]
    /\ pc' = [run \in Runs |-> "run"]
    /\ UNCHANGED <<stderr, out, result, calls, err, args, parsed, opts, r, issues, body,
                   linkErr, projects, selectedProject, nodeID, mainVars, listVars,
                   reposVars>>

\* a `debug.Log(...)` statement of the program
DebugLogStep ==
    /\ \E run \in Runs : pc[run] = "run"
    /\ Cardinality(DebugCalls) < MaxDebugCalls
    /\ \E site \in LogSites :
         /\ calls' = Append(calls, Call("Log", site))
         /\ DebugWrite(LAMBDA run : Log(instance[run], Now, site.fn, site.fields))
    /\ UNCHANGED <<instance, result, err, args, parsed, opts, r, issues, body,
                   linkErr, projects, selectedProject, nodeID, mainVars, listVars,
                   reposVars>>

\* a `debug.Error(...)` statement of the program
DebugErrorStep ==
    /\ \E run \in Runs : pc[run] = "run"
    /\ Cardinality(DebugCalls) < MaxDebugCalls
    /\ \E site \in ErrorSites :
         /\ calls' = Append(calls, Call("Error", site))
         /\ DebugWrite(LAMBDA run :
                Error(instance[run], Now, site.fn, site.err, site.fields))
    /\ UNCHANGED <<instance, result, err, args, parsed, opts, r, issues, body,
                   linkErr, projects, selectedProject, nodeID, mainVars, listVars,
                   reposVars>>

\* a statement of the program between the debug calls
ObservableStep ==
    /\ \E run \in Runs : pc[run] = "run"
    /\ Len(calls) - Cardinality(DebugCalls) < MaxEvents
    /\ \E ev \in Events :
         /\ calls' = Append(calls, Call(ev, <<>>))
         /\ out' = [run \in Runs |->
                       IF pc[run] = "run" THEN Append(out[run], Line(ev, <<>>))
                       ELSE out[run]]
    /\ UNCHANGED <<pc, instance, stderr, result, err, args, parsed, opts, r, issues,
                   body, linkErr, projects, selectedProject, nodeID, mainVars, listVars,
                   reposVars>>

\* main, after run(): on an error `debug.Error("main", err)`, "error: %v" on
\* standard error and exit status 1
ExitStep ==
    /\ \E run \in Runs : pc[run] = "run"
    /\ \E e \in {<<>>} \cup {site.err : site \in ErrorSites} :
         /\ err' = e
         /\ LET w(run) == IF e = <<>> THEN NoWrite
                           ELSE Error(instance[run], Now, "main", e, <<>>)
                exits(run) == pc[run] = "run" /\ ~w(run).panic
                errorLine == IF e = <<>> THEN <<>>
                             ELSE <<Line("error: %v\n", <<ErrorText(e[1])>>)>>
            IN  /\ stderr' = [run \in Runs |->
                      IF ~exits(run) THEN stderr[run]
                      ELSE stderr[run]
                           \o (IF w(run).stream = "stderr" THEN w(run).lines ELSE <<>>)
                           \o errorLine]
                /\ out' = [run \in Runs |->
                      IF exits(run) /\ w(run).stream = "stdout"
                      THEN out[run] \o w(run).lines ELSE out[run]]
                /\ result' = [run \in Runs |->
                      IF exits(run) THEN <<IF e = <<>> THEN 0 ELSE 1>> ELSE result[run]]
                /\ pc' = [run \in Runs |->
                      IF pc[run] # "run" THEN pc[run]
                      ELSE IF w(run).panic THEN "panic" ELSE "exit"]
    /\ UNCHANGED <<instance, calls, args, parsed, opts, r, issues, body,
                   linkErr, projects, selectedProject, nodeID, mainVars, listVars,
                   reposVars>>

NextDebug ==
    \/ DebugInitStep
    \/ DebugLogStep
    \/ DebugErrorStep
    \/ ObservableStep
    \/ ExitStep

SpecDebug == InitDebug /\ [][NextDebug]_vars

-----------------------------------------------------------------------------
(* Properties of debug logging *)

\* the lines of a stream that the logger wrote
DebugLines(lines) == SelectSeq(lines, LAMBDA line : "level" \in DOMAIN line)

\* the lines of a stream that the logger did not write
OtherLines(lines) == SelectSeq(lines, LAMBDA line : "level" \notin DOMAIN line)

-----------------------------------------------------------------------------
(* The selection helpers, SelectParentIssue and SelectProject, applied to  *)
(* lists with long titles and with equal labels.  A title is the sequence  *)
(* of the bytes of its UTF-8 encoding, which is what len and slicing of a  *)
(* Go string work on; a text is a sequence of characters.                  *)

\* the characters of the titles: one, two and three bytes in UTF-8
TitleChars == {"a", "U+00E9", "U+65E5"}

\* the UTF-8 encoding of a character
EncodeRune(c) ==
    CASE c = "a" -> <<"a">>
      [] c = "U+00E9" -> <<"C3", "A9">>
      [] c = "U+65E5" -> <<"E6", "97", "A5">>

\* the bytes of a Go string holding the text
RECURSIVE EncodeString(_)
EncodeString(text) ==
    IF text = <<>> THEN <<>>
    ELSE EncodeRune(Head(text)) \o EncodeString(Tail(text))

\* lengths of titles, in characters, around the limits of the truncation
TitleLengths == {1, 17, 47, 50, 51, 60}

\* titles of issues as texts: one character repeated
TitleTexts == {[i \in 1..n |-> c] : n \in TitleLengths, c \in TitleChars}

\* results of a successful ListIssues whose titles are long
LongIssueLists ==
    {[i \in 1..Len(titles) |-> [Number |-> 10 + i, Title |-> EncodeString(titles[i])]] :
        titles \in SeqsUpTo(TitleTexts, MaxIssues)}

\* results of a successful ListProjects in which two projects of different
\* owners have the same title and number
TwinProjectLists ==
    {s \in SeqsUpTo(ProjectPool \cup {[ID |-> "PVT_9", Title |-> <<"Roadmap">>,
                                       Number |-> 1]}, MaxProjects) : IsInjective(s)}

InitSelect ==
    /\ \/ /\ pc = "SelectParentIssue"
          /\ opts \in [Parent : {0}, Title : {<<"a">>}, Body : {<<"Body text">>},
                       BodyFile : {<<>>}, Repo : {<<>>}, Assignees : {<<>>},
                       Labels : {<<>>}, Milestone : {0}, Web : {FALSE}, Project : {Unset}]
          /\ r \in [Owner : {"owner"}, Repo : {"repo"}, Prompter : {TRUE}, Stdin : {TRUE},
                    ValidateParent : {FALSE}, OpenBrowser : {FALSE}]
          /\ issues \in LongIssueLists
          /\ projects = <<>>
          /\ result = <<>>
       \/ /\ pc = "ListSelectParent"
          /\ opts \in [Parent : {0}, Repo : {<<>>}]
          /\ r \in [Owner : {"owner"}, Repo : {"repo"}, Prompter : {TRUE}]
          /\ issues \in LongIssueLists
          /\ projects = <<>>
          /\ result = <<>>
       \/ /\ pc = "SelectProject"
          /\ opts \in [Parent : {42}, Title : {<<"a">>}, Body : {<<"Body text">>},
                       BodyFile : {<<>>}, Repo : {<<>>}, Assignees : {<<>>},
                       Labels : {<<>>}, Milestone : {0}, Web : {FALSE},
                       Project : {SetEmpty}]
          /\ r \in [Owner : {"owner"}, Repo : {"repo"}, Prompter : {TRUE}, Stdin : {TRUE},
                    ValidateParent : {FALSE}, OpenBrowser : {FALSE}]
          /\ issues = <<>>
          /\ projects \in TwinProjectLists
          /\ result \in {<<res>> : res \in IssueResults}
       \/ /\ pc = "EditSelectProject"
          /\ opts \in [IssueNumber : {43}, Repo : {<<>>}, Project : {SetEmpty}]
          /\ r \in [Owner : {"owner"}, Repo : {"repo"}, Prompter : {TRUE}]
          /\ issues = <<>>
          /\ projects \in TwinProjectLists
          /\ result = <<>>
    /\ body = <<>>
    /\ linkErr = <<>>
    /\ selectedProject = <<>>
    /\ nodeID = ""
    /\ calls = <<>>
    /\ out = <<>>
    /\ err = <<>>
    /\ args = <<>>
    /\ parsed = <<>>
    /\ InitMainVars
    /\ InitListVars
    /\ InitReposVars
    /\ InitDebugVars

NextSelect ==
    \/ SelectParentIssue
    \/ ListSelectParent
    \/ SelectProject
    \/ GetIssueNodeID
    \/ AddIssueToProject
    \/ EditSelectProject
    \/ EditGetIssueNodeID
    \/ EditAddIssueToProject

SpecSelect == InitSelect /\ [][NextSelect]_vars

-----------------------------------------------------------------------------
(* Properties of the selection helpers *)

\* the title as the option shows it when the limit is counted in
\* characters: the first 47 characters and "..." for more than 50
RenderedText(text) ==
    IF Len(text) > 50
    THEN EncodeString(SubSeq(text, 1, 47)) \o <<".", ".", ".">>
    ELSE EncodeString(text)

\* the option shows the title of the issue, cut by characters
ShowsTitle(option, issue) ==
    \E text \in TitleTexts :
        /\ issue.Title = EncodeString(text)
        /\ option.Title = RenderedText(text)

\* C26: every parent picker has one option per issue, option i is
\* "#<number> <title>" of issue i, and the title is unchanged up to 50
\* characters and otherwise its first 47 characters followed by "...".
C26_Claim ==
    \A i \in 1..Len(calls) :
        (calls[i].op = "Select" /\ calls[i].args.prompt = "Select parent issue") =>
            /\ Len(calls[i].args.options) = Len(issues)
            /\ \A k \in 1..Len(issues) :
                  /\ calls[i].args.options[k].Number = issues[k].Number
                  /\ ShowsTitle(calls[i].args.options[k], issues[k])

-----------------------------------------------------------------------------
(* Properties of the order of the calls in create *)

\* the place of a call in the order of Run: ListIssues, the parent picker,
\* the title input, the body read, GetIssue, CreateIssue, LinkSubIssue,
\* ListProjects, the project picker, GetIssueNodeID, AddIssueToProject,
\* OpenBrowser
StepOf(c) ==
    CASE c.op = "ListIssues" -> 1
      [] c.op = "Select" /\ c.args.prompt = "Select parent issue" -> 2
      [] c.op = "Input" -> 3
      [] c.op = "ReadBody" -> 4
      [] c.op = "GetIssue" -> 5
      [] c.op = "CreateIssue" -> 6
      [] c.op = "LinkSubIssue" -> 7
      [] c.op = "ListProjects" -> 8
      [] c.op = "Select" /\ c.args.prompt = "Select project" -> 9
      [] c.op = "GetIssueNodeID" -> 10
      [] c.op = "AddIssueToProject" -> 11
      [] c.op = "OpenBrowser" -> 12

\* the last step whose failure ends Run: LinkSubIssue
LastFatalStep == StepOf([op |-> "LinkSubIssue"])

\* the steps of addToProject
ProjectSteps == {StepOf([op |-> op]) : op \in ProjectOps} \cup {9}

\* the call returned without error; for the title input, the answer was
\* not blank either
Succeeded(c) ==
    CASE c.op = "Select" -> c.args.ok
      [] c.op = "Input" -> c.args.ok /\ TrimSpace(c.args.ret) # <<>>
      [] OTHER -> c.ok

\* Run has written the line with the URL of the issue
URLPrinted == \E j \in 1..Len(out) : out[j].fmt = FmtURL

\* the calls are in the order of the steps, no step twice
CallsInOrder ==
    \A i, j \in 1..Len(calls) : i < j => StepOf(calls[i]) < StepOf(calls[j])

\* the optional steps are taken only when asked for: the parent picker when
\* no parent was given, the title input when no title was given, GetIssue
\* when ValidateParent is set, the project steps when the project option
\* was set and the link succeeded
OptionalStepsGuarded ==
    \A i \in 1..Len(calls) :
        LET c == calls[i] IN
        /\ c.op = "ListIssues" => i = 1
        /\ (c.op = "ListIssues" /\ opts.Parent # 0) =>
               \E j \in 1..Len(calls) :
                   /\ StepOf(calls[j]) = 2
                   /\ calls[j].args.ok
                   /\ opts.Parent = issues[calls[j].args.ret].Number
        /\ StepOf(c) = 2 => (i = 2 /\ calls[1].ok /\ Len(issues) > 0)
        /\ (c.op = "Input" /\ opts.Title # <<>>) =>
               (c.args.ok /\ opts.Title = TrimSpace(c.args.ret))
        /\ c.op = "GetIssue" => r.ValidateParent
        /\ StepOf(c) \in ProjectSteps =>
               /\ opts.Project.WasSet
               /\ linkErr = <<>>
               /\ \E j \in 1..(i - 1) : calls[j].op = "LinkSubIssue" /\ calls[j].ok
        /\ c.op = "OpenBrowser" => (opts.Web /\ URLPrinted)

\* a call is made only after every earlier call succeeded, up to
\* LinkSubIssue and inside addToProject
EarlierStepsSucceeded ==
    \A i, j \in 1..Len(calls) :
        (i < j /\ (StepOf(calls[i]) <= LastFatalStep
                   \/ StepOf(calls[j]) \in ProjectSteps)) =>
            Succeeded(calls[i])

\* CreateIssue is called with a parent and a title, and LinkSubIssue after
\* a CreateIssue that returned the issue
CreateAndLinkGuarded ==
    /\ Called("CreateIssue") => (opts.Parent # 0 /\ opts.Title # <<>>)
    /\ Called("LinkSubIssue") =>
          /\ result # <<>>
          /\ \E i \in 1..Len(calls) : calls[i].op = "CreateIssue" /\ calls[i].ok

\* C27 as stated: the calls are in the order of the steps, the optional
\* steps are guarded, and every call, the line with the URL and OpenBrowser
\* come only after every earlier step succeeded.
C27_Original ==
    /\ CallsInOrder
    /\ OptionalStepsGuarded
    /\ EarlierStepsSucceeded
    /\ CreateAndLinkGuarded
    /\ URLPrinted =>
          /\ Called("LinkSubIssue")
          /\ \A i \in 1..Len(calls) :
                calls[i].op # "OpenBrowser" => Succeeded(calls[i])

\* C27: the calls are in the order of the steps, the optional steps are
\* guarded, a call is made only after every earlier call succeeded up to
\* LinkSubIssue and inside addToProject, and the line with the URL and
\* OpenBrowser come after a successful LinkSubIssue whether or not the
\* steps of addToProject succeeded.
C27_CallOrder ==
    /\ CallsInOrder
    /\ OptionalStepsGuarded
    /\ EarlierStepsSucceeded
    /\ CreateAndLinkGuarded
    /\ URLPrinted =>
          /\ Called("LinkSubIssue")
          /\ \A i \in 1..Len(calls) :
                StepOf(calls[i]) <= LastFatalStep => Succeeded(calls[i])
    /\ (pc = "Done" /\ err = <<>> /\ linkErr = <<>>) => URLPrinted

\* Run validated the parent, created and linked the issue, failed to list
\* the projects, and still wrote the URL and opened the browser
C27_Witness ==
    /\ pc = "Done"
    /\ URLPrinted
    /\ Called("GetIssue")
    /\ Called("OpenBrowser")
    /\ \E i \in 1..Len(calls) : calls[i].op = "ListProjects" /\ ~calls[i].ok

-----------------------------------------------------------------------------
(* Properties of the identifiers passed to the Client in create *)

\* the parent Run resolved: the picked issue's number when the picker was
\* used, else the number given with the option
ResolvedParent ==
    IF \E i \in 1..Len(calls) : StepOf(calls[i]) = 2 /\ calls[i].args.ok
    THEN LET i == CHOOSE i \in 1..Len(calls) : StepOf(calls[i]) = 2 /\ calls[i].args.ok
         IN  issues[calls[i].args.ret].Number
    ELSE opts.Parent

\* C28: LinkSubIssue gets the resolved parent's number and the created
\* issue's internal id, GetIssueNodeID gets the created issue's number, and
\* AddIssueToProject gets the selected project's ID and the node id that
\* GetIssueNodeID returned.
C28_Identifiers ==
    \A i \in 1..Len(calls) :
        LET c == calls[i] IN
        /\ c.op = "LinkSubIssue" =>
              /\ c.args.ParentIssue = ResolvedParent
              /\ c.args.SubIssueID = result[1].ID
        /\ c.op = "GetIssueNodeID" => c.args.Number = result[1].Number
        /\ c.op = "AddIssueToProject" =>
              /\ nodeID \in NodeIDs
              /\ c.args.IssueNodeID = nodeID
              /\ c.args.ProjectID = selectedProject[1].ID
              /\ c.args.ProjectID # ToString(selectedProject[1].Number)

\* the issue was created after a pick of the parent, linked and added to
\* a project
C28_Witness ==
    /\ Called("LinkSubIssue")
    /\ Called("AddIssueToProject")
    /\ \E i \in 1..Len(calls) : StepOf(calls[i]) = 2 /\ calls[i].args.ok
    /\ result # <<>>
    /\ result[1].ID # result[1].Number

\* the Select calls that returned an index, by prompt
Picks(prompt) ==
    {i \in 1..Len(calls) : /\ calls[i].op = "Select"
                           /\ calls[i].args.prompt = prompt
                           /\ calls[i].args.ok}

\* SelectProject returned its error for an empty list: to edit as the error
\* of the command, to create as the warning of addToProject
NoProjectsReported ==
    \/ err # <<>> /\ err[1].msg = MsgNoProjects
    \/ \E j \in 1..Len(out) : /\ out[j].fmt = FmtSelectProjectWarning
                              /\ out[j].args[1].msg = MsgNoProjects

\* C29: the pickers take the entity at the index the Prompter returned: the
\* parent is the number of issues[i], the selected project is projects[i]
\* and its ID goes to AddIssueToProject, also when two options have the
\* same label; a picker is never opened on an empty list, which is
\* answered with an error.
C29_SelectByIndex ==
    /\ \A i \in Picks("Select parent issue") :
          LET picked == issues[calls[i].args.ret] IN
          /\ pc = "ResolveTitle" => opts.Parent = picked.Number
          /\ pc = "ListSubIssues" => parent = picked.Number
    /\ \A i \in Picks("Select project") :
          LET picked == projects[calls[i].args.ret] IN
          /\ selectedProject = <<picked>>
          /\ \A j \in 1..Len(calls) :
                calls[j].op = "AddIssueToProject" => calls[j].args.ProjectID = picked.ID
    /\ \A i \in 1..Len(calls) :
          calls[i].op = "Select" =>
              /\ calls[i].args.options # <<>>
              /\ Len(calls[i].args.options) = Len(issues) + Len(projects)
    /\ (issues = <<>> /\ projects = <<>> /\ pc \in {"Done", "Report"}) =>
          /\ calls = <<>>
          /\ (err # <<>> /\ err[1].msg = MsgNoOpenIssues) \/ NoProjectsReported

\* the second of two projects with the same label was picked and added
C29_Witness ==
    /\ Len(projects) = 2
    /\ ProjectOption(projects[1]) = ProjectOption(projects[2])
    /\ \E i \in Picks("Select project") : calls[i].args.ret = 2
    /\ \E j \in 1..Len(calls) :
          /\ calls[j].op = "AddIssueToProject"
          /\ calls[j].args.ProjectID = projects[2].ID

-----------------------------------------------------------------------------
(* The parent resolution of create and of list on the same inputs: create  *)
(* resolves its parent, what it did is kept in parsed, and list is then    *)
(* run with the same parent option and the same Prompter availability.     *)
(* args holds the inputs that the two commands share.                      *)

InitResolve ==
    /\ pc = "ResolveParent"
    /\ args \in [Parent : {0, 7, 42}, Prompter : BOOLEAN]
    /\ opts = [Parent |-> args.Parent, Title |-> <<"a">>, Body |-> <<"Body text">>,
               BodyFile |-> <<>>, Repo |-> <<>>, Assignees |-> <<>>, Labels |-> <<>>,
               Milestone |-> 0, Web |-> FALSE, Project |-> Unset]
    /\ r = [Owner |-> "owner", Repo |-> "repo", Prompter |-> args.Prompter,
            Stdin |-> TRUE, ValidateParent |-> FALSE, OpenBrowser |-> FALSE]
    /\ issues = <<>>
    /\ body = <<>>
    /\ result = <<>>
    /\ linkErr = <<>>
    /\ projects = <<>>
    /\ selectedProject = <<>>
    /\ nodeID = ""
    /\ calls = <<>>
    /\ out = <<>>
    /\ err = <<>>
    /\ parsed = <<>>
    /\ InitMainVars
    /\ InitListVars
    /\ InitReposVars
    /\ InitDebugVars

\* create has resolved its parent or failed: its calls, its error and its
\* parent are kept, and ListRunner.Run starts on the same inputs
StartListRunner ==
    /\ pc \in {"ResolveTitle", "Done"}
    /\ parsed = <<>>
    /\ parsed' = <<[calls |-> calls, err |-> err, issues |-> issues,
                    resolved |-> pc = "ResolveTitle", parent |-> opts.Parent]>>
    /\ pc' = "ListParent"
    /\ opts' = [Parent |-> args.Parent, Repo |-> <<>>]
    /\ r' = [Owner |-> r.Owner, Repo |-> r.Repo, Prompter |-> args.Prompter]
    /\ calls' = <<>>
    /\ err' = <<>>
    /\ issues' = <<>>
    /\ UNCHANGED <<body, result, linkErr, projects, selectedProject, nodeID, out, args,
                   mainVars, listVars, reposVars, debugVars>>

NextResolve ==
    \/ ResolveParent
    \/ SelectParentIssue
    \/ StartListRunner
    \/ ListParent
    \/ ListSelectParent

SpecResolve == InitResolve /\ [][NextResolve]_vars

-----------------------------------------------------------------------------
(* Properties of the two parent resolutions *)

\* both commands are through with the resolution of the parent
BothResolved == parsed # <<>> /\ pc \in {"ListSubIssues", "Done"}

\* the error at the bottom of a chain of wrapped errors
RECURSIVE RootCause(_)
RootCause(e) == IF e.cause = <<>> THEN e ELSE RootCause(e.cause[1])

\* what the Client or the Prompter answered to a call
Answer(c) ==
    IF c.op = "Select" THEN [ok |-> c.args.ok, ret |-> c.args.ret]
    ELSE [ok |-> c.ok, ret |-> 0]

\* ListIssues failed: it is the one call, and it returned an error
ListIssuesFailed(cs) == Len(cs) = 1 /\ cs[1].op = "ListIssues" /\ ~cs[1].ok

\* the two commands got the same answers: the same ListIssues result (list
\* or error) and the same Select result
SameAnswers ==
    LET create == parsed[1] IN
    /\ \A i \in 1..Len(calls) :
          i <= Len(create.calls) => Answer(create.calls[i]) = Answer(calls[i])
    /\ \A i \in 1..Len(create.calls) :
          i <= Len(calls) => Answer(create.calls[i]) = Answer(calls[i])
    /\ create.issues = issues
    /\ (ListIssuesFailed(create.calls) /\ ListIssuesFailed(calls)) =>
          RootCause(create.err[1]) = RootCause(err[1])

\* the two commands made the same calls, and both failed or both resolved
\* the same parent
SameResolution ==
    LET create == parsed[1] IN
    /\ create.calls = calls
    /\ \A i \in 1..Len(calls) :
          /\ calls[i].op = "ListIssues" =>
                (calls[i].args.State = "open" /\ calls[i].args.PerPage = 30)
          /\ calls[i].op = "Select" => (i = 2 /\ calls[1].op = "ListIssues")
    /\ create.resolved = (pc = "ListSubIssues")
    /\ (create.err = <<>>) = (err = <<>>)
    /\ create.resolved => create.parent = parent

\* C30 as stated: on the same inputs and answers list and create make the
\* same calls, both fail or both resolve the same parent, and a failure is
\* the same error in both.
C30_Original ==
    (BothResolved /\ SameAnswers) =>
        /\ SameResolution
        /\ parsed[1].err = err

\* C30: on the same inputs and answers list and create make the same
\* calls (ListIssues with state "open" and page size 30, then Select) and
\* both fail or both resolve the same parent; a failure of the picker is
\* the same error in both, a failure of ListIssues is returned as it is by
\* list and wrapped as "failed to list issues: ..." by create, and without
\* a Prompter list fails with the first sentence of the message of create.
C30_SameResolution ==
    (BothResolved /\ SameAnswers) =>
        /\ SameResolution
        /\ IF err = <<>> THEN parsed[1].err = <<>>
           ELSE IF ListIssuesFailed(calls)
           THEN parsed[1].err =
                    <<WrapError(<<"failed", "to", "list", "issues:">>, <<>>, err[1])>>
           ELSE IF calls = <<>>
           THEN /\ err = <<NewError(MsgListParentRequired)>>
                /\ parsed[1].err = <<NewError(MsgParentRequired)>>
                /\ SubSeq(MsgParentRequired, 1, Len(MsgListParentRequired))
                      = MsgListParentRequired
           ELSE parsed[1].err = err

\* ListIssues failed for both commands in the same way, and the two
\* commands return different errors
C30_Witness ==
    /\ BothResolved
    /\ SameAnswers
    /\ ListIssuesFailed(calls)
    /\ parsed[1].err # err

-----------------------------------------------------------------------------
(* Properties of host resolution *)

\* the hosts a resolution can end with, and the unset host
Hosts == {"", PublicHost} \cup {c.Host : c \in CurrentRepos}

\* the API base the claim names for a host
ExpectedBase(h) ==
    IF h \in {"", "github.com"} THEN <<"https://api.github.com">>
    ELSE <<"https://", h, "/api/v3">>

\* C31: once the repository is resolved the host is, with a --repo string, the
\* ambient lookup's host when the lookup succeeded and github.com when it
\* failed; without one, the ambient host when the lookup succeeded and
\* github.com after the prompt. The API base is the public API for an empty
\* host and for github.com, and https://<host>/api/v3 for every other host.
C31_ResolvedHost ==
    /\ pc \in {"NewClient", "Run"}
          => host = IF env.Current # <<>> THEN env.Current[1].Host ELSE "github.com"
    /\ (pc \in {"NewClient", "Run"} /\ opts.Repo = <<>> /\ env.Current = <<>>)
          => (RepoPromptCalls # {} /\ host = "github.com")
    /\ pc = "Run" => r[1].BaseURL = ExpectedBase(host)
    /\ \A h \in Hosts : BaseURL(h) = ExpectedBase(h)

C31_Witness ==
    /\ pc = "Run"
    /\ opts.Repo = <<"o", "/", "n">>
    /\ env.Current # <<>>
    /\ host = "ghe.example.com"
    /\ r[1].BaseURL = <<"https://", "ghe.example.com", "/api/v3">>

-----------------------------------------------------------------------------
(* Properties of the repos fetch loop *)

\* the positions of the ListRepositories calls
PageCalls == {i \in 1..Len(calls) : calls[i].op = "ListRepositories"}

\* the lesser of two integers
Min(a, b) == IF a < b THEN a ELSE b

\* how many ListRepositories calls were made up to position i
PageCallsUpTo(i) == Cardinality({j \in PageCalls : j <= i})

\* the call made after call i was not made for nothing: page i was non-empty,
\* not shorter than the size requested, and the limit was not yet reached
MorePagesAfter(i) ==
    /\ calls[i].args.returned > 0
    /\ calls[i].args.returned >= calls[i].args.PerPage
    /\ ReturnedUpTo(i) < opts.Limit

\* pages are requested as 1, 2, 3, ..., each only while the one before it
\* called for more
PagesInTurn ==
    \A i \in PageCalls :
        /\ calls[i].args.Page = PageCallsUpTo(i)
        /\ ReturnedUpTo(i - 1) < opts.Limit
        /\ \A j \in PageCalls : j < i => MorePagesAfter(j)

\* C32 as stated: every page request asks for min(100, remaining) rows, where
\* remaining is the limit minus the repositories accumulated so far, and
\* pages are requested in turn.
C32_Original ==
    /\ \A i \in PageCalls :
          calls[i].args.PerPage = Min(100, opts.Limit - ReturnedUpTo(i - 1))
    /\ PagesInTurn

\* C32: every page request asks for min(100, limit) rows, the same number on
\* every page whatever has been accumulated; pages are requested as 1, 2, 3,
\* ... and a further page is requested only while the last page was non-empty,
\* was not shorter than the size requested, and the accumulated count is
\* below the limit.
C32_PageRequests ==
    /\ \A i \in PageCalls : calls[i].args.PerPage = Min(100, opts.Limit)
    /\ PagesInTurn

C32_Witness ==
    /\ pc = "Done"
    /\ err = <<>>
    /\ opts.Limit = 201
    /\ Cardinality(PageCalls) = 3
    /\ Len(allRepos) = 201
    /\ \A i \in PageCalls : calls[i].args.PerPage = 100

\* the kinds of all repositories the API returned, in the order of the API
RECURSIVE FetchedUpTo(_)
FetchedUpTo(n) ==
    IF n = 0 THEN <<>>
    ELSE FetchedUpTo(n - 1)
            \o (IF calls[n].op = "ListRepositories" THEN calls[n].args.kinds ELSE <<>>)

\* the names of the repository rows, in the order of the output
RowNames ==
    LET rows == SelectSeq(out, LAMBDA l : l.fmt = FmtRepoRow /\ l.args[1] # HeaderCells[1])
    IN  [i \in 1..Len(rows) |-> rows[i].args[1]]

\* whether a repository of kind k is shown under the flags of the run
Shown(k) ==
    /\ (~opts.Enabled \/ (k.HasIssues /\ ~k.Archived))
    /\ (~opts.Disabled \/ ~(k.HasIssues /\ ~k.Archived))

\* the names of the repositories shown among the first n returned
ShownAmongFirst(n) ==
    LET fetched == FetchedUpTo(Len(calls))
        first == [k \in 1..Min(n, Len(fetched)) |->
                     [name |-> <<"org/repo", ToString(k)>>, kind |-> fetched[k]]]
        shown == SelectSeq(first, LAMBDA x : Shown(x.kind))
    IN  [i \in 1..Len(shown) |-> shown[i].name]

\* a repository the API returned beyond the first `limit` that the filter
\* would have shown
ShownBeyondLimit ==
    LET fetched == FetchedUpTo(Len(calls))
    IN  \E k \in (opts.Limit + 1)..Len(fetched) : Shown(fetched[k])

\* C33: the limit is applied before the filter: the rows printed are exactly
\* the repositories among the first `limit` returned (in the order of the
\* API) that pass the filter, also when repositories beyond the first `limit`
\* would have passed it.
C33_LimitBeforeFilter ==
    (pc = "Done" /\ err = <<>>) => RowNames = ShownAmongFirst(opts.Limit)

C33_Witness ==
    /\ pc = "Done"
    /\ err = <<>>
    /\ opts.Enabled
    /\ ~opts.Disabled
    /\ opts.Limit = 2
    /\ ShownBeyondLimit
    /\ Len(RowNames) = 1

-----------------------------------------------------------------------------
(* The repositories client: Client.ListRepositories and the requests it sends *)

MaxRows == 2   \* longest list of repositories in a response

MsgDecodeResponse == <<"failed", "to", "decode", "response:">>

\* the ListRepositoriesOptions of a call; Page 0 is the unset page
ListRepositoriesOptions == [Owner : {"testuser", "testorg"}, PerPage : {30, 100}, Page : 0..2]

\* what the server, or the connection, answers to one GET
Responses ==
    {[kind |-> "transport", status |-> 0, rows |-> 0],
     [kind |-> "garbled", status |-> 200, rows |-> 0]}
        \cup {[kind |-> "status", status |-> s, rows |-> 0] : s \in {401, 403, 404, 500}}
        \cup {[kind |-> "rows", status |-> 200, rows |-> n] : n \in 0..MaxRows}

\* the URL of listOrgRepositories and listUserRepositories: `&page=` only
\* for a page above 0
RepositoriesURL(endpoint, o) ==
    [endpoint |-> endpoint, owner |-> o.Owner, per_page |-> o.PerPage,
     page |-> IF o.Page > 0 THEN <<o.Page>> ELSE <<>>]

\* fetchRepositories: the pair (repos, err) for a response
fetchRepositories(resp, operation) ==
    IF resp.kind = "transport"
    THEN [repos |-> <<>>, err |-> <<WrapError(MsgSendRequest, <<>>, NewError(<<"transport">>))>>]
    ELSE IF resp.status # 200
    THEN [repos |-> <<>>, err |-> <<APIError(resp.status, operation)>>]
    ELSE IF resp.kind = "garbled"
    THEN [repos |-> <<>>, err |-> <<WrapError(MsgDecodeResponse, <<>>, NewError(<<"invalid", "JSON">>))>>]
    ELSE [repos |-> [i \in 1..resp.rows |-> KindAt(i)], err |-> <<>>]

\* variant: every classified failure of the organisation endpoint counts as
\* "no such organisation"
IsOrgNotFoundAnyStatus(e) == e.kind = "APIError"

\* `apiErr, ok := err.(*APIError); ok && apiErr.StatusCode == http.StatusNotFound`
IsOrgNotFound(e) == e.kind = "APIError" /\ e.status = 404

InitReposClient ==
    /\ pc = "ListOrg"
    /\ args \in ListRepositoriesOptions
    /\ opts = <<>>
    /\ r = <<>>
    /\ owner = <<>>
    /\ allRepos = <<>>
    /\ page = 0
    /\ InitDebugVars
    /\ env = <<>>
    /\ prompter = FALSE
    /\ repoName = <<>>
    /\ host = ""
    /\ issues = <<>>
    /\ body = <<>>
    /\ result = <<>>
    /\ linkErr = <<>>
    /\ projects = <<>>
    /\ selectedProject = <<>>
    /\ nodeID = ""
    /\ calls = <<>>
    /\ out = <<>>
    /\ err = <<>>
    /\ parsed = <<>>
    /\ InitListVars

\* Client.ListRepositories up to the decision to fall back: "Try org endpoint
\* first"
listOrgRepositories ==
    /\ pc = "ListOrg"
    /\ UNCHANGED debugVars
    /\ UNCHANGED <<opts, r, issues, body, linkErr, projects, selectedProject, nodeID,
                   out, args, parsed, mainVars, listVars, reposVars>>
    /\ \E resp \in Responses :
          LET fetched == fetchRepositories(resp, "list org repositories")
          IN  /\ calls' = Append(calls, Call("GET", [url |-> RepositoriesURL("orgs", args),
                                                      response |-> resp]))
              /\ IF fetched.err = <<>>
                 THEN /\ result' = <<fetched.repos>>
                      /\ err' = <<>>
                      /\ pc' = "Returned"
                 ELSE IF IsOrgNotFound(fetched.err[1])
                 THEN /\ pc' = "ListUser"
                      /\ UNCHANGED <<result, err>>
                 ELSE /\ err' = fetched.err
                      /\ pc' = "Returned"
                      /\ UNCHANGED result

\* `return c.listUserRepositories(opts)`
listUserRepositories ==
    /\ pc = "ListUser"
    /\ UNCHANGED debugVars
    /\ UNCHANGED <<opts, r, issues, body, linkErr, projects, selectedProject, nodeID,
                   out, args, parsed, mainVars, listVars, reposVars>>
    /\ \E resp \in Responses :
          LET fetched == fetchRepositories(resp, "list user repositories")
          IN  /\ calls' = Append(calls, Call("GET", [url |-> RepositoriesURL("users", args),
                                                      response |-> resp]))
              /\ result' = IF fetched.err = <<>> THEN <<fetched.repos>> ELSE result
              /\ err' = fetched.err
              /\ pc' = "Returned"

\* ReposRunner.Run, and Client.ListRepositories on its own
InitReposAPI == InitRepos \/ InitReposClient

NextReposAPI ==
    \/ ReposOwner
    \/ ReposFetch
    \/ ReposWrite
    \/ listOrgRepositories
    \/ listUserRepositories

SpecReposAPI == InitReposAPI /\ [][NextReposAPI]_vars

-----------------------------------------------------------------------------
(* Properties of the repositories client *)

\* the state is one of Client.ListRepositories
InClient == pc \in {"ListOrg", "ListUser", "Returned"}

\* the positions of the requests to an endpoint
Requests(endpoint) ==
    {i \in 1..Len(calls) : calls[i].op = "GET" /\ calls[i].args.url.endpoint = endpoint}

\* the positions of the GetAuthenticatedUser calls
UserCalls == {i \in 1..Len(calls) : calls[i].op = "GetAuthenticatedUser"}

\* C34: Client.ListRepositories queries the organisation endpoint first and
\* the user endpoint only after the organisation endpoint answered 404; any
\* other failure of the organisation endpoint is returned with no request to
\* the user endpoint, and when both answer 404 the call returns an error.
\* ReposRunner.Run calls GetAuthenticatedUser iff no owner was given, and
\* when that call fails Run ends with an error before any ListRepositories
\* call.
C34_EndpointOrder ==
    /\ InClient
          => /\ Requests("orgs") = (IF pc = "ListOrg" THEN {} ELSE {1})
             /\ Requests("users") \subseteq {2}
             /\ Requests("users") # {} => calls[1].args.response.status = 404
             /\ (pc = "Returned" /\ calls[1].args.response.status # 404)
                   => Requests("users") = {}
             /\ (/\ pc = "Returned"
                 /\ calls[1].args.response.kind \in {"transport", "status", "garbled"}
                 /\ calls[1].args.response.status # 404)
                   => err # <<>> /\ Len(calls) = 1
             /\ (/\ pc = "Returned"
                 /\ Len(calls) = 2
                 /\ calls[2].args.response.status = 404)
                   => (err # <<>> /\ err[1].kind = "APIError" /\ err[1].status = 404)
             /\ pc = "ListUser" => Len(calls) = 1
    /\ ~InClient
          => /\ (pc # "ReposOwner" /\ opts.Owner = "") => UserCalls = {1}
             /\ opts.Owner # "" => UserCalls = {}
             /\ \A i \in UserCalls :
                   ~calls[i].ok => /\ pc = "Done"
                                   /\ err # <<>>
                                   /\ PageCalls = {}
                                   /\ Len(calls) = 1

C34_Witness ==
    /\ pc = "Returned"
    /\ Requests("users") = {2}
    /\ calls[1].args.response.status = 404
    /\ calls[2].args.response.status = 404
    /\ err # <<>>

-----------------------------------------------------------------------------
(* Properties of parent validation *)

\* the positions of the calls of a Client operation
CallsOf(op) == {i \in 1..Len(calls) : calls[i].op = op}

\* the run is past the validation step
PastValidation ==
    pc \in {"CreateIssue", "LinkSubIssue", "AfterLinkFailure", "addToProject",
            "SelectProject", "GetIssueNodeID", "AddIssueToProject", "Report"}
        \/ CallsOf("CreateIssue") # {}

\* C35: with parent validation enabled, a failed GetIssue for the resolved
\* parent ends create with an error that names the parent and wraps the
\* cause, and CreateIssue is never called; with validation disabled GetIssue
\* is never called and the run goes on to CreateIssue whether or not the
\* parent exists.
C35_ParentValidation ==
    /\ \A i \in CallsOf("GetIssue") :
          /\ r.ValidateParent
          /\ calls[i].args.Number = opts.Parent
          /\ opts.Parent # 0
          /\ ~calls[i].ok
                => /\ i = Len(calls)
                   /\ pc = "Done"
                   /\ err # <<>>
                   /\ err[1].kind = "wrap"
                   /\ err[1].msg = <<"parent", "issue", "#%d", "not", "found:">>
                   /\ err[1].args = <<opts.Parent>>
                   /\ err[1].cause # <<>>
                   /\ err[1].cause[1] \in ClientErrors("get issue")
                   /\ CallsOf("CreateIssue") = {}
    /\ ~r.ValidateParent => CallsOf("GetIssue") = {}
    /\ (r.ValidateParent /\ PastValidation)
          => \E i \in CallsOf("GetIssue") : calls[i].ok
    /\ (~r.ValidateParent /\ err # <<>>)
          => err[1].msg # <<"parent", "issue", "#%d", "not", "found:">>
    /\ pc = "ValidateParent" => (CallsOf("GetIssue") = {} /\ CallsOf("CreateIssue") = {})

C35_Witness ==
    /\ pc = "Done"
    /\ r.ValidateParent
    /\ CallsOf("GetIssue") # {}
    /\ ~calls[Len(calls)].ok
    /\ calls[Len(calls)].op = "GetIssue"
    /\ err # <<>>
    /\ err[1].cause # <<>>
    /\ err[1].cause[1].status = 404

\* C36: ReposRunner.Run ends normally, with nil or an error and never with a
\* run-time fault, for every integer limit, and calls ListRepositories not
\* at all when the limit is 0 or negative.
C36_Claim ==
    /\ pc # "Panic"
    /\ opts.Limit <= 0 => PageCalls = {}

\* the least number of pages of size d that hold n rows
Ceil(n, d) == (n + d - 1) \div d

\* the largest number of page requests for a limit of at least 1
MaxPageCalls == Ceil(opts.Limit, Min(100, opts.Limit))

\* C37: for every limit L >= 1 and whatever pages the API returns (empty,
\* short, full or longer than requested) the fetch loop makes at most
\* ceil(L / min(100, L)) ListRepositories calls, one in each turn, and its
\* next turn is the last test of the loop once that many were made; a failed
\* page request is the last call, ends Run with an error, and no repository
\* row is written.
C37_FetchLoopBound ==
    opts.Limit >= 1
        => /\ Cardinality(PageCalls) <= MaxPageCalls
           /\ (pc = "ReposFetch" /\ Cardinality(PageCalls) = MaxPageCalls)
                 => Len(allRepos) >= opts.Limit
           /\ pc = "ReposFetch" => Len(allRepos) >= Cardinality(PageCalls) * PerPage(opts)
           /\ pc # "Panic"
           /\ \A i \in PageCalls :
                 ~calls[i].ok => /\ i = Len(calls)
                                 /\ pc = "Done"
                                 /\ err # <<>>
                                 /\ RepoRows = {}
                                 /\ out = <<>>

C37_Witness ==
    /\ pc = "Done"
    /\ opts.Limit = 201
    /\ Cardinality(PageCalls) = 3
    /\ ~calls[Len(calls)].ok
    /\ err # <<>>
    /\ out = <<>>

-----------------------------------------------------------------------------
(* Properties of the classification of wrapped errors *)

\* the error classified is a wrapper around an *APIError of this status
WrapsStatus(status) ==
    /\ err # <<>>
    /\ err[1].kind = "wrap"
    /\ err[1].cause # <<>>
    /\ err[1].cause[1].kind = "APIError"
    /\ err[1].cause[1].status = status

\* C38: the four predicates classify an *APIError by its status code also
\* when a caller has wrapped it, as create's parent validation wraps the
\* GetIssue error: IsNotFound of a wrapped 404 is true, IsAuthError of a
\* wrapped 401 is true.
C38_Claim ==
    pc = "Classified"
        => /\ WrapsStatus(404) => parsed[1].IsNotFound
           /\ WrapsStatus(401) => parsed[1].IsAuthError

-----------------------------------------------------------------------------
(* Properties of the title of the created issue *)

\* the positions of the answered title prompts
TitlePrompts ==
    {i \in 1..Len(calls) :
        calls[i].op = "Input" /\ calls[i].args.prompt = "Title" /\ calls[i].args.ok}

\* C39 as stated: every CreateIssue call made by create carries a title that
\* is neither empty nor whitespace-only, whether it came from --title or from
\* the prompt.
C39_Original ==
    \A i \in CallsOf("CreateIssue") : TrimSpace(calls[i].args.Title) # <<>>

\* C39: every CreateIssue call made by create carries a non-empty title. A
\* title answered at the prompt is trimmed and is not blank; a title given
\* with --title is passed on as given, so a whitespace-only --title reaches
\* CreateIssue.
C39_TitleNotEmpty ==
    \A i \in CallsOf("CreateIssue") :
        /\ calls[i].args.Title # <<>>
        /\ calls[i].args.Title = opts.Title
        /\ \A j \in TitlePrompts :
              /\ j < i
              /\ calls[i].args.Title = TrimSpace(calls[j].args.ret)
              /\ TrimSpace(calls[i].args.Title) # <<>>

C39_Witness ==
    /\ CallsOf("CreateIssue") # {}
    /\ TitlePrompts = {}
    /\ calls[Len(calls)].op = "CreateIssue"
    /\ calls[Len(calls)].args.Title = <<" ">>

====
